---- MODULE Spec2Model ----
(***************************************************************************)
(* Model of terrasmart-modbus-automated: the GraphQL mode toggle           *)
(* (modbus-set-mode-api.js), the report runner (generateAllReports.js) and *)
(* the three Modbus pollers (csvModbusTTID.js, csvModbusPosition.js,       *)
(* csvSortedBatchRead.js).                                                 *)
(***************************************************************************)
EXTENDS Integers, Sequences, FiniteSets, TLC

VARIABLES
    \* ---- modbus-set-mode-api.js ----
    mode,          \* argument of setModbusMode
    tpc,           \* position of setModbusMode: idle / posting / settled / rejected
    flagsToSend,   \* setFlags: the payload still being sent
    attempt,       \* setFlags: outer loop counter
    selIdx,        \* setFlags: index of the selection of the inner loop (1-based)
    posts,         \* number of POST requests sent by this call
    lastSent,      \* the last request sent: selection index and variables
    result,        \* the object setModbusMode resolved to
    \* ---- generateAllReports.js ----
    gpc,           \* position of generateAllReports
    cat,           \* index of the report category being run (1..3)
    csvExists,     \* fs.existsSync of the TTID csv and of the position csv
    toggled,       \* per category: how its setModbusMode call ended
    invoked,       \* per category: how its report generator call ended
    genResults,    \* allResults of generateAllReports
    genErrors,     \* errors of generateAllReports
    \* ---- csvModbusTTID.js address math, applied to one input ----
    apc,           \* input / done
    aType,         \* deviceType argument
    aTtid,         \* ttidNum argument
    aBase,         \* baseReg argument
    aUnit,         \* what computeUnitId returned or threw
    aStart,        \* what computeStartingAddressForType returned
    \* ---- the report generators (pollers) ----
    gen,           \* which generator runs: ttid / position / sorted
    ppc,           \* position of the generator
    ids,           \* the identifiers parsed from the csv (TTID strings or positions)
    registers,     \* the register image of the device
    failures,      \* reads the transport has failed so far
    client,        \* the ModbusRTU client: open, connects, closes, selected unit
    ret,           \* what the generator returned or threw
    dt,            \* index of the device type being read
    fieldSpec,     \* the entries loaded for the device type
    ti,            \* index of the identifier being read
    fi,            \* index of the field being read
    unitId,        \* unit id of the identifier (TTID generator)
    header,        \* deviceTypeName of the position being read
    allResults,    \* rows of the device type
    origin,        \* for each row, the identifier and field index it was made at
    allReports,    \* one entry per device type written
    lastRead,      \* the last readHoldingRegisters call and how it ended
    data,          \* data.data of the last successful read
    joinedHex,     \* combinedHex before the padding
    combinedHex,   \* combinedHex as handed to decodeValue
    htmlRows       \* the sections of the html report written last (TTID generator)

toggleVars == <<mode, tpc, flagsToSend, attempt, selIdx, posts, lastSent, result>>
genVars    == <<gpc, cat, csvExists, toggled, invoked, genResults, genErrors>>
addrVars   == <<apc, aType, aTtid, aBase, aUnit, aStart>>
pollVars   == <<gen, ppc, ids, registers, failures, client, ret, dt, fieldSpec, ti, fi,
                unitId, header, allResults, origin, allReports, lastRead, data,
                joinedHex, combinedHex, htmlRows>>
vars       == <<toggleVars, genVars, addrVars, pollVars>>

\* What the actions of one component leave alone.
exceptToggle == <<genVars, addrVars, pollVars>>
exceptGen    == <<addrVars, pollVars>>
exceptAddr   == <<toggleVars, genVars, pollVars>>
exceptPoll   == <<toggleVars, genVars, addrVars>>

(***************************************************************************)
(* JavaScript values as the pollers handle them.  A text is a sequence of  *)
(* string pieces (template literals concatenate them); hex strings are     *)
(* texts of one-character pieces.  TLC integers are 32 bits wide, so an    *)
(* unsigned 32- or 64-bit result is kept as its canonical hex digits.      *)
(***************************************************************************)

Num(n)    == [kind |-> "num",   val |-> n, text |-> <<>>]
NaN       == [kind |-> "nan",   val |-> 0, text |-> <<>>]
Null      == [kind |-> "null",  val |-> 0, text |-> <<>>]
Text(t)   == [kind |-> "text",  val |-> 0, text |-> t]
Str(s)    == Text(<<s>>)
Empty     == Text(<<>>)
Big(h)    == [kind |-> "big",   val |-> 0, text |-> h]
Float(h)  == [kind |-> "float", val |-> 0, text |-> h]
\* The number n/2 for an odd n: a finite number that is not an integer.
Halves(n) == [kind |-> "half", val |-> n, text |-> <<>>]
\* A decoded character string, kept as the hex digits of its bytes.
Chars(h)  == [kind |-> "chars", val |-> 0, text |-> h]

\* Number.isFinite
IsFinite(v) == v.kind \in {"num", "half"}
\* JavaScript truthiness of a value (if (rawCodec), field.ID || "")
Truthy(v) ==
    CASE v.kind = "num"  -> v.val # 0
      [] v.kind \in {"text", "chars"} -> v.text # <<>>
      [] v.kind \in {"big", "float", "half"} -> TRUE
      [] OTHER           -> FALSE

HexDigits == <<"0", "1", "2", "3", "4", "5", "6", "7", "8", "9", "a", "b", "c", "d", "e", "f">>
UpperDigits == <<"0", "1", "2", "3", "4", "5", "6", "7", "8", "9", "A", "B", "C", "D", "E", "F">>

\* String(n) of an integer, as its characters
RECURSIVE DecimalDigits(_)
DecimalDigits(n) ==
    IF n < 10 THEN <<HexDigits[n + 1]>>
    ELSE Append(DecimalDigits(n \div 10), HexDigits[(n % 10) + 1])
NumText(n) == IF n < 0 THEN <<"-">> \o DecimalDigits(-n) ELSE DecimalDigits(n)

\* `${v}`: the characters a value contributes to a template literal.  A float
\* or a big integer is rendered as its kind and its digits.
Render(v) ==
    CASE v.kind = "num"  -> NumText(v.val)
      [] v.kind = "half" -> NumText((v.val - 1) \div 2) \o <<".", "5">>
      [] v.kind = "nan"  -> <<"NaN">>
      [] v.kind = "null" -> <<"null">>
      [] v.kind \in {"text", "chars"} -> v.text
      [] OTHER -> <<v.kind>> \o v.text

DigitValue(c) == CHOOSE d \in 0..15 : HexDigits[d + 1] = c \/ UpperDigits[d + 1] = c

\* String.prototype.toUpperCase on a hex string
ToUpperCase(h) == [i \in 1..Len(h) |-> UpperDigits[DigitValue(h[i]) + 1]]

\* Number.prototype.toString(16) of a non-negative integer
RECURSIVE ToString16(_)
ToString16(n) ==
    IF n < 16 THEN <<HexDigits[n + 1]>>
    ELSE Append(ToString16(n \div 16), HexDigits[(n % 16) + 1])

\* String.prototype.padStart(width, "0"): never shortens
RECURSIVE PadStart(_, _)
PadStart(h, width) == IF Len(h) >= width THEN h ELSE PadStart(<<"0">> \o h, width)

\* .replace(/^0+/, "")
RECURSIVE StripLeadingZeros(_)
StripLeadingZeros(h) ==
    IF h # <<>> /\ Head(h) = "0" THEN StripLeadingZeros(Tail(h)) ELSE h

\* (val < 0 ? 0x10000 + val : val).toString(16).padStart(4, "0")
WordHex(val) == PadStart(ToString16(IF val < 0 THEN 65536 + val ELSE val), 4)

\* data.data.map(WordHex).join("")
RECURSIVE JoinWords(_)
JoinWords(words) ==
    IF words = <<>> THEN <<>> ELSE WordHex(Head(words)) \o JoinWords(Tail(words))

(***************************************************************************)
(* Codec helpers (the same in the three generators, up to the wording of   *)
(* the 'Not enough bytes' diagnostic)                                      *)
(***************************************************************************)

\* The codec names of the field specs, as written, and
\* String(codec || "").toLowerCase().replace(/\s+/g, "") of each.
CodecKey(codec) ==
    CASE codec = "Float32" -> "float32"
      [] codec = " U16 "   -> "u16"
      [] codec = "UINT 64" -> "uint64"
      [] codec = "ASCIIZ"   -> "asciiz"
      [] codec = "Float BE" -> "floatbe"
      [] codec = "BCD"      -> "bcd"
      [] codec = "my codec" -> "mycodec"
      [] OTHER             -> codec

CODEC_ALIASES ==
    [asciiz |-> "ascii", utf8 |-> "ascii", text |-> "ascii", string |-> "ascii",
     float |-> "float32", floatbe |-> "float32", float32 |-> "float32",
     int |-> "int32", int32 |-> "int32", i32 |-> "int32",
     uint |-> "uint32", u32 |-> "uint32", uint32 |-> "uint32",
     u64 |-> "uint64", uint64 |-> "uint64",
     int64 |-> "int64", i64 |-> "int64",
     int16 |-> "int16", i16 |-> "int16", s16 |-> "int16",
     uint16 |-> "uint16", u16 |-> "uint16",
     bool |-> "boolean", boolean |-> "boolean",
     hex |-> "hex"]

normalizeCodec(codec) ==
    IF CodecKey(codec) \in DOMAIN CODEC_ALIASES
      THEN CODEC_ALIASES[CodecKey(codec)]
      ELSE CodecKey(codec)

\* Buffer.from(hex, "hex"): the bytes of the complete digit pairs; a trailing
\* odd digit is dropped.
RECURSIVE BufferFromHex(_)
BufferFromHex(h) ==
    IF Len(h) < 2 THEN <<>>
    ELSE <<16 * DigitValue(h[1]) + DigitValue(h[2])>> \o BufferFromHex(Tail(Tail(h)))

\* The hex digits of the first n bytes of a buffer
RECURSIVE BytesHex(_, _)
BytesHex(buf, n) ==
    IF n = 0 THEN <<>>
    ELSE PadStart(ToString16(Head(buf)), 2) \o BytesHex(Tail(buf), n - 1)

\* The canonical hex digits of the number a hex string denotes
Canonical(h) == IF StripLeadingZeros(h) = <<>> THEN <<"0">> ELSE StripLeadingZeros(h)

readUInt16BE(buf) == 256 * buf[1] + buf[2]
readInt16BE(buf)  == IF buf[1] >= 128 THEN readUInt16BE(buf) - 65536 ELSE readUInt16BE(buf)
readInt32BE(buf)  ==
    (IF buf[1] >= 128 THEN readUInt16BE(buf) - 65536 ELSE readUInt16BE(buf)) * 65536
    + 256 * buf[3] + buf[4]
readUInt32BE(buf) == Canonical(BytesHex(buf, 4))
\* The float is identified by its 32 bits; every NaN pattern reads as NaN.
readFloatBE(buf)  ==
    IF /\ (buf[1] % 128) = 127
       /\ buf[2] >= 128
       /\ (buf[2] > 128 \/ buf[3] > 0 \/ buf[4] > 0)
      THEN NaN
      ELSE Float(BytesHex(buf, 4))

\* buffer.toString("utf8").replace(/\0/g, ""): the bytes that are not NUL
RECURSIVE AsciiText(_)
AsciiText(buf) ==
    IF buf = <<>> THEN <<>>
    ELSE (IF Head(buf) = 0 THEN <<>> ELSE PadStart(ToString16(Head(buf)), 2))
         \o AsciiText(Tail(buf))

NotEnoughBytes(codec, wording) ==
    IF wording = "long" THEN Text(<<"Not enough bytes for ", codec>>)
    ELSE Str("Not enough bytes")

\* decodeValue(hex, codec); wording is "long" in csvModbusTTID.js and
\* csvModbusPosition.js, "short" in csvSortedBatchRead.js.
decodeValue(h, codec, wording) ==
    LET buffer == BufferFromHex(h) IN
    CASE codec = "ascii"   -> Chars(AsciiText(buffer))
      [] codec = "float32" ->
           IF Len(buffer) >= 4 THEN readFloatBE(buffer) ELSE NotEnoughBytes(codec, wording)
      [] codec = "int32"   ->
           IF Len(buffer) >= 4 THEN Num(readInt32BE(buffer)) ELSE NotEnoughBytes(codec, wording)
      [] codec = "uint32"  ->
           IF Len(buffer) >= 4 THEN Big(readUInt32BE(buffer)) ELSE NotEnoughBytes(codec, wording)
      [] codec = "uint64"  ->
           \* BigInt("0x" + hex): the whole hex string, not the first 8 bytes
           IF Len(buffer) >= 8 THEN Big(Canonical(h)) ELSE NotEnoughBytes(codec, wording)
      [] codec = "int64"   -> Str("Int64 decoding not implemented")
      [] codec = "int16"   ->
           IF Len(buffer) >= 2 THEN Num(readInt16BE(buffer)) ELSE NotEnoughBytes(codec, wording)
      [] codec = "uint16"  ->
           IF Len(buffer) >= 2 THEN Num(readUInt16BE(buffer)) ELSE NotEnoughBytes(codec, wording)
      [] codec = "boolean" ->
           IF Len(buffer) >= 2
             THEN Num(IF readUInt16BE(buffer) # 0 THEN 1 ELSE 0)
             ELSE NotEnoughBytes(codec, wording)
      [] codec = "hex"     -> Text(<<"0x">> \o ToUpperCase(h))
      [] OTHER             -> Null

\* The width the generators pad the combined hex to before decoding.
PadWidth(codec) ==
    CASE codec \in {"uint64"}                    -> 16
      [] codec \in {"uint32", "int32", "float32"} -> 8
      [] codec \in {"uint16", "int16", "boolean"} -> 4
      [] OTHER                                    -> 0

PadForCodec_unpadded(h, codec) == h

\* The three conditional padStart calls of the generators.
PadForCodec(h, codec) ==
    IF Len(h) < PadWidth(codec) THEN PadStart(h, PadWidth(codec)) ELSE h

\* csvModbusTTID.js: hexValues.join("").replace(/^0+/, "") || "00"
BatchCombinedHex(words) ==
    IF StripLeadingZeros(JoinWords(words)) = <<>> THEN <<"0", "0">>
    ELSE StripLeadingZeros(JoinWords(words))

\* csvModbusPosition.js, csvSortedBatchRead.js: hexValues.join("")
PositionCombinedHex(words) == JoinWords(words)

(***************************************************************************)
(* The inputs of the report generators: the csv identifiers, the field     *)
(* spec files, the registers of the device and the transport's failures    *)
(***************************************************************************)

\* The longest identifier list read from a csv.
MaxIds == 2
\* The longest field spec file.
MaxFields == 2
\* The most reads the transport fails in one run of a generator.
MaxFailures == 2

Site == "192.168.12.73"

\* The contiguous pieces of at most maxLen elements of a list.
Windows(master, maxLen) ==
    {SubSeq(master, w[1], w[2]) :
        w \in {v \in (1..Len(master)) \X (0..Len(master)) :
                  v[2] >= v[1] - 1 /\ v[2] - v[1] < maxLen}}

\* TTID column values, as the characters of each csv cell.
TTIDMaster ==
    << <<"1", "0", "1">>, <<"1">>, <<"2">>, <<"a", "b", "c">>, <<"0">>, <<"1", ".", "5">>,
       <<"-", "1">> >>
\* Position column values, already numbers.
PositionMaster == <<1, 0, 2>>

Entry(id, base, size, codec) == [ID |-> id, BaseReg |-> base, Size |-> size, Codec |-> codec]

\* Entries of json/unsorted_assets.json and of json/unsorted_nc.json.
AssetsMaster ==
    << Entry("Device Type", Num(0), Num(1), "uint16"),
       Entry("Angle", Num(10), Num(2), "Float32"),
       Entry("Flags", Num(12), Num(2), " U16 "),
       Entry("Bad", Num(20), Num(0), "hex"),
       Entry("Mystery", Num(30), Num(1), "widget"),
       Entry("", Num(40), Num(1), "hex"),
       Entry("Serial", Num(50), Num(4), "UINT 64"),
       Entry("Name", NaN, Num(2), "ascii") >>
NcMaster ==
    << Entry("System ID", Num(0), Num(1), "uint32"),
       Entry("Uptime", Num(10), Num(4), "i64"),
       Entry("Label", Num(21), Num(1), "text") >>

\* JSON.parse(fs.readFileSync(file)) of a spec file
SpecFile(jsonFile) ==
    IF jsonFile = "unsorted_nc.json" THEN Windows(NcMaster, MaxFields)
    ELSE Windows(AssetsMaster, MaxFields)

\* The registers of the device: the word the transport delivers for an address.
\* pi holds 0x4048 0xf5c3 (the second word delivered signed), low holds 0 and
\* 0xffff (delivered as -1).
RegisterImages == {"pi", "low"}
Word(image, address) ==
    CASE image = "pi"  -> IF address % 2 = 0 THEN 16456 ELSE -2621
      [] OTHER         -> IF address % 2 = 0 THEN 0 ELSE -1

ErrorMessages == {"Timed out", "Modbus exception 2: Illegal data address"}

\* What readHoldingRegisters(address, size) can come back with: the words of the
\* registers, or a rejection carrying a message.  A read of no register is
\* always rejected; the transport fails at most MaxFailures other reads.
ReadReplies(address, size) ==
    (IF size.kind = "num" /\ size.val >= 1
       THEN {[ok |-> TRUE, forced |-> FALSE, message |-> "",
              words |-> [i \in 1..size.val |->
                           Word(registers, (IF address.kind = "num" THEN address.val ELSE 0) + i - 1)]]}
       ELSE {})
    \cup {[ok |-> FALSE, forced |-> ~(size.kind = "num" /\ size.val >= 1),
           message |-> m, words |-> <<>>] :
            m \in IF failures < MaxFailures \/ ~(size.kind = "num" /\ size.val >= 1)
                    THEN ErrorMessages ELSE {}}

\* String.prototype.trim
RECURSIVE TrimStart(_)
TrimStart(t) == IF t # <<>> /\ Head(t) = " " THEN TrimStart(Tail(t)) ELSE t
RECURSIVE TrimEnd(_)
TrimEnd(t) == IF t # <<>> /\ t[Len(t)] = " " THEN TrimEnd(SubSeq(t, 1, Len(t) - 1)) ELSE t
Trim(t) == TrimEnd(TrimStart(t))

IsDigit(c) == \E d \in 0..9 : HexDigits[d + 1] = c
RECURSIVE DigitsValue(_)
DigitsValue(t) ==
    IF t = <<>> THEN 0 ELSE 10 * DigitsValue(SubSeq(t, 1, Len(t) - 1)) + DigitValue(t[Len(t)])

ParseNumber_lenient(t) ==
    LET digits == IF t # <<>> /\ Head(t) = "-" THEN Tail(t) ELSE t IN
    IF digits # <<>> /\ \A i \in 1..Len(digits) : IsDigit(digits[i])
      THEN Num(IF Head(t) = "-" THEN -DigitsValue(digits) ELSE DigitsValue(digits))
      ELSE Num(0)

\* Number(text) of a string of characters: an optionally signed run of digits is
\* its value, a run of digits followed by ".5" is that value and a half, the
\* empty string is 0, anything else is NaN.
ParseNumber(t) ==
    LET digits == IF t # <<>> /\ Head(t) = "-" THEN Tail(t) ELSE t
        whole  == SubSeq(digits, 1, Len(digits) - 2)
    IN
    IF t = <<>> THEN Num(0)
    ELSE IF digits # <<>> /\ \A i \in 1..Len(digits) : IsDigit(digits[i])
           THEN Num(IF Head(t) = "-" THEN -DigitsValue(digits) ELSE DigitsValue(digits))
           ELSE IF /\ Len(digits) >= 3
                   /\ Head(t) # "-"
                   /\ SubSeq(digits, Len(digits) - 1, Len(digits)) = <<".", "5">>
                   /\ \A i \in 1..Len(whole) : IsDigit(whole[i])
                  THEN Halves(2 * DigitsValue(whole) + 1)
                  ELSE NaN

(***************************************************************************)
(* Result rows and the client, shared by the three generators              *)
(***************************************************************************)

Row_swapped(ttid, unit, id, start, size, hex, decoded) ==
    [TTID |-> ttid, Site |-> Str(Site), UnitID |-> unit, ID |-> id,
     StartingAddress |-> start, Size |-> size, CombinedHex |-> decoded,
     DecodedValue |-> hex]

Row(ttid, unit, id, start, size, hex, decoded) ==
    [TTID |-> ttid, Site |-> Str(Site), UnitID |-> unit, ID |-> id,
     StartingAddress |-> start, Size |-> size, CombinedHex |-> hex,
     DecodedValue |-> decoded]

ErrorRow_decoded(ttid, unit, id, start, size, message) ==
    Row(ttid, unit, id, start, size, Str("Error"), Str(message))

\* The row of the catch block of a register read: `Error: ${err.message}` in
\* the CombinedHex column and "" in the DecodedValue column.
ErrorRow(ttid, unit, id, start, size, message) ==
    Row(ttid, unit, id, start, size, Text(<<"Error: ", message>>), Empty)

\* A separator row: only the ID column is filled.
Separator(id) ==
    [TTID |-> Null, Site |-> Empty, UnitID |-> Empty, ID |-> id,
     StartingAddress |-> Empty, Size |-> Empty, CombinedHex |-> Empty,
     DecodedValue |-> Empty]

StrOrEmpty(s) == IF s = "" THEN Empty ELSE Str(s)

Push_front(rows, row) == <<row>> \o rows

\* allResults.push(row)
Push(rows, row) == Append(rows, row)

NewClient == [open |-> FALSE, connects |-> 0, closes |-> 0, unit |-> 1]
connectTCP(c) == [c EXCEPT !.open = TRUE, !.connects = @ + 1]
close(c)      == [c EXCEPT !.open = FALSE, !.closes = @ + 1]
setID_ignored(c, u) == c
setID(c, u)   == [c EXCEPT !.unit = u]

NoRead == [unit |-> 0, address |-> Num(0), size |-> Num(0), ok |-> FALSE, purpose |-> "none",
           dt |-> 0, ti |-> 0, fi |-> 0]
\* The call readHoldingRegisters(address, size) issued on the client c
ReadCall(c, address, size, reply, purpose) ==
    [unit |-> c.unit, address |-> address, size |-> size, ok |-> reply.ok,
     purpose |-> purpose, dt |-> dt, ti |-> ti, fi |-> fi]

NoReturn == [kind |-> "none", text |-> <<>>, reports |-> 0]
Reports(n) == [kind |-> "reports", text |-> <<>>, reports |-> n]
ErrorObject(msg) == [kind |-> "error", text |-> msg, reports |-> 0]
Thrown(msg) == [kind |-> "threw", text |-> msg, reports |-> 0]

PollIdle ==
    /\ gen = ""
    /\ ppc = "idle"
    /\ ids = <<>>
    /\ registers = "pi"
    /\ failures = 0
    /\ client = NewClient
    /\ ret = NoReturn
    /\ dt = 1
    /\ fieldSpec = <<>>
    /\ ti = 1
    /\ fi = 1
    /\ unitId = 0
    /\ header = Empty
    /\ allResults = <<>>
    /\ origin = <<>>
    /\ allReports = <<>>
    /\ lastRead = NoRead
    /\ data = <<>>
    /\ joinedHex = <<>>
    /\ combinedHex = <<>>
    /\ htmlRows = <<>>

(***************************************************************************)
(* csvModbusTTID.js: address math                                          *)
(***************************************************************************)

Returned(v)  == [threw |-> FALSE, value |-> v, message |-> <<>>]
Threw(msg)   == [threw |-> TRUE,  value |-> 0, message |-> msg]

\* Row boxes are banked: this many TTIDs per unit id.
BankSize == 100
\* Each TTID (or position) owns a block of this many registers.
BlockSize == 512

\* String(deviceType || "").toLowerCase() of the device types callers pass
TypeKey(deviceType) == IF deviceType = "Row" THEN "row" ELSE deviceType

\* computeUnitId with the bank taken from the TTID itself instead of TTID - 1
computeUnitId_offByOne(deviceType, ttidNum) ==
    CASE TypeKey(deviceType) = "row" ->
           IF ttidNum.kind # "num" \/ ttidNum.val < 1
             THEN Threw(<<"Invalid TTID for row boxes: ">> \o Render(ttidNum))
             ELSE Returned((ttidNum.val \div BankSize) + 1)
      [] TypeKey(deviceType) = "weather"  -> Returned(101)
      [] TypeKey(deviceType) = "repeater" -> Returned(102)
      [] TypeKey(deviceType) = "network"  -> Returned(100)
      [] OTHER -> Threw(<<"Unknown device type: ", deviceType>>)

computeUnitId_lenient(deviceType, ttidNum) ==
    CASE TypeKey(deviceType) = "row" -> Returned(((ttidNum.val - 1) \div BankSize) + 1)
      [] TypeKey(deviceType) = "weather"  -> Returned(101)
      [] TypeKey(deviceType) = "repeater" -> Returned(102)
      [] TypeKey(deviceType) = "network"  -> Returned(100)
      [] OTHER -> Threw(<<"Unknown device type: ", deviceType>>)

\* computeUnitId; ttidNum is a finite number, an integer when its kind is "num".
computeUnitId(deviceType, ttidNum) ==
    CASE TypeKey(deviceType) = "row" ->
           IF ttidNum.kind # "num" \/ ttidNum.val < 1
             THEN Threw(<<"Invalid TTID for row boxes: ">> \o Render(ttidNum))
             ELSE Returned(((ttidNum.val - 1) \div BankSize) + 1)
      [] TypeKey(deviceType) = "weather"  -> Returned(101)
      [] TypeKey(deviceType) = "repeater" -> Returned(102)
      [] TypeKey(deviceType) = "network"  -> Returned(100)
      [] OTHER -> Threw(<<"Unknown device type: ", deviceType>>)

\* computeStartingAddressForType with the row boxes paged like the other types
computeStartingAddressForType_unbanked(deviceType, ttidNum, uid, baseReg) ==
    (ttidNum - 1) * BlockSize + baseReg

\* computeStartingAddressForType with the flat paging counted from TTID 0
computeStartingAddressForType_zeroBased(deviceType, ttidNum, uid, baseReg) ==
    IF TypeKey(deviceType) = "row"
      THEN ((ttidNum - 1) - ((uid - 1) * BankSize)) * BlockSize + baseReg
      ELSE ttidNum * BlockSize + baseReg

computeStartingAddressForType(deviceType, ttidNum, uid, baseReg) ==
    IF TypeKey(deviceType) = "row"
      THEN ((ttidNum - 1) - ((uid - 1) * BankSize)) * BlockSize + baseReg
      ELSE (ttidNum - 1) * BlockSize + baseReg

\* computeStartingAddressForType on the identifier as parsed; for the number
\* n/2 the products are taken on n: (n/2 - 1) * 512 = ((n - 2) * 512) / 2.
StartingAddressOf(deviceType, ttidNum, uid, baseReg) ==
    IF ttidNum.kind = "half"
      THEN IF TypeKey(deviceType) = "row"
             THEN Num((((ttidNum.val - 2) - 2 * ((uid - 1) * BankSize)) * BlockSize) \div 2
                      + baseReg)
             ELSE Num(((ttidNum.val - 2) * BlockSize) \div 2 + baseReg)
      ELSE Num(computeStartingAddressForType(deviceType, ttidNum.val, uid, baseReg))

\* The largest TTID the address math is applied to.
MaxTTID == 205
AddrTypes == {"row", "weather", "repeater", "network", "Row", "valve"}
AddrBaseRegs == {0, 10, 511}

AddrIdle ==
    /\ apc = "idle"
    /\ aType = ""
    /\ aTtid = 0
    /\ aBase = 0
    /\ aUnit = Returned(0)
    /\ aStart = 0

\* unitId = computeUnitId(type, ttidNum), then, unless it threw,
\* startAddr = computeStartingAddressForType(type, ttidNum, unitId, baseReg)
ComputeAddress ==
    /\ apc = "input"
    /\ apc' = "done"
    /\ aUnit' = computeUnitId(aType, Num(aTtid))
    /\ aStart' = IF aUnit'.threw THEN 0
                 ELSE computeStartingAddressForType(aType, aTtid, aUnit'.value, aBase)
    /\ UNCHANGED <<aType, aTtid, aBase>>
    /\ UNCHANGED exceptAddr

(***************************************************************************)
(* modbus-set-mode-api.js                                                  *)
(***************************************************************************)

FlagNames == {"enableLegacyMode", "enableModbusSorting"}

MODE_MAP ==
    [m \in {"ttid", "legacy-unsorted", "legacy-sorted"} |->
        CASE m = "ttid"            -> [enableLegacyMode |-> FALSE, enableModbusSorting |-> FALSE]
          [] m = "legacy-unsorted" -> [enableLegacyMode |-> TRUE,  enableModbusSorting |-> FALSE]
          [] m = "legacy-sorted"   -> [enableLegacyMode |-> TRUE,  enableModbusSorting |-> TRUE]]

\* The four selection sets, most ambitious first.
SELECTIONS == <<"full", "partial", "typename-only", "bare-typename">>

\* The mode strings callers pass; String(mode).toLowerCase() of each.
ModeInputs == {"ttid", "legacy-unsorted", "legacy-sorted", "TTID", "Legacy-Sorted", "bogus", ""}

ToLowerCase(s) ==
    CASE s = "TTID"          -> "ttid"
      [] s = "Row"           -> "row"
      [] s = "Legacy-Sorted" -> "legacy-sorted"
      [] OTHER               -> s

\* The number of outer cycles of setFlags.
MaxAttempts == 6

\* What one POST can come back with.  network / abort: fetch rejects (the abort is
\* the timeout firing controller.abort()); the other kinds carry an error message,
\* of which the code only looks at four regular-expression matches.
ErrorKinds == {"nonjson", "http", "graphql"}
ThrowKinds == {"network", "abort"}

Replies ==
    [kind : {"ok"} \cup ThrowKinds, cannotQuery : {FALSE}, unknownField : {FALSE},
     namesSorting : {FALSE}, namesLegacy : {FALSE}]
    \cup
    [kind : ErrorKinds, cannotQuery : BOOLEAN, unknownField : BOOLEAN,
     namesSorting : BOOLEAN, namesLegacy : BOOLEAN]

Without(f, names) == [n \in (DOMAIN f \ names) |-> f[n]]

scrubUnsupportedFlagsFromError_all(flags, msg) ==
    Without(flags, IF msg.namesSorting \/ msg.namesLegacy THEN FlagNames ELSE {})

\* scrubUnsupportedFlagsFromError: the flags left after the deletions.
scrubUnsupportedFlagsFromError(flags, msg) ==
    Without(flags,
        (IF msg.namesSorting THEN {"enableModbusSorting"} ELSE {})
        \cup (IF msg.namesLegacy THEN {"enableLegacyMode"} ELSE {}))

NoRequest == [selection |-> 0, variables |-> <<>>]
NoResult  == [ok |-> FALSE, skipped |-> FALSE, reason |-> "", selection |-> 0,
              appliedFlags |-> <<>>]

Applied_fullPair(sel, flags) ==
    [ok |-> TRUE, skipped |-> FALSE, reason |-> "", selection |-> sel,
     appliedFlags |-> MODE_MAP[ToLowerCase(mode)]]
Applied(sel, flags) ==
    [ok |-> TRUE, skipped |-> FALSE, reason |-> "", selection |-> sel, appliedFlags |-> flags]
Skipped(why, flags) ==
    [ok |-> FALSE, skipped |-> TRUE, reason |-> why, selection |-> 0, appliedFlags |-> flags]

\* The toggle has not been called.
ToggleIdle ==
    /\ mode = ""
    /\ tpc = "idle"
    /\ flagsToSend = <<>>
    /\ attempt = 0
    /\ selIdx = 1
    /\ posts = 0
    /\ lastSent = NoRequest
    /\ result = NoResult

\* setModbusMode up to its first await of postUpdate.
setModbusMode(m) ==
    /\ mode' = m
    /\ posts' = 0
    /\ lastSent' = NoRequest
    /\ attempt' = 0
    /\ selIdx' = 1
    /\ IF ToLowerCase(m) \in DOMAIN MODE_MAP
         THEN /\ flagsToSend' = MODE_MAP[ToLowerCase(m)]
              /\ tpc' = "posting"
              /\ result' = NoResult
         ELSE /\ flagsToSend' = <<>>
              /\ tpc' = "settled"
              /\ result' = Skipped("Invalid mode", <<>>)

EndOfCycle_noEmptyCheck(flags) ==
    /\ flagsToSend' = flags
    /\ IF attempt + 1 < MaxAttempts
         THEN /\ attempt' = attempt + 1
              /\ selIdx' = 1
              /\ tpc' = "posting"
              /\ result' = NoResult
         ELSE /\ attempt' = attempt + 1
              /\ tpc' = "settled"
              /\ result' = Skipped("Exhausted retries", flags)
              /\ UNCHANGED selIdx

EndOfCycle_keepSelection(flags) ==
    /\ flagsToSend' = flags
    /\ IF DOMAIN flags = {}
         THEN /\ tpc' = "settled"
              /\ result' = Skipped("Unsupported flags", <<>>)
              /\ UNCHANGED <<attempt, selIdx>>
         ELSE IF attempt + 1 < MaxAttempts
                THEN /\ attempt' = attempt + 1
                     /\ tpc' = "posting"
                     /\ result' = NoResult
                     /\ UNCHANGED selIdx
                ELSE /\ attempt' = attempt + 1
                     /\ tpc' = "settled"
                     /\ result' = Skipped("Exhausted retries", flags)
                     /\ UNCHANGED selIdx

\* The end of one outer cycle of setFlags with payload `flags`: the check for an
\* empty payload, then the next cycle or the exhausted return.
EndOfCycle(flags) ==
    /\ flagsToSend' = flags
    /\ IF DOMAIN flags = {}
         THEN /\ tpc' = "settled"
              /\ result' = Skipped("Unsupported flags", <<>>)
              /\ UNCHANGED <<attempt, selIdx>>
         ELSE IF attempt + 1 < MaxAttempts
                THEN /\ attempt' = attempt + 1
                     /\ selIdx' = 1
                     /\ tpc' = "posting"
                     /\ result' = NoResult
                ELSE /\ attempt' = attempt + 1
                     /\ tpc' = "settled"
                     /\ result' = Skipped("Exhausted retries", flags)
                     /\ UNCHANGED selIdx

NextSelection_skipLast ==
    IF selIdx < Len(SELECTIONS) - 1
      THEN /\ selIdx' = selIdx + 1
           /\ UNCHANGED <<flagsToSend, attempt, tpc, result>>
      ELSE EndOfCycle(flagsToSend)

\* The next selection of the inner loop, or the end of the cycle after the last.
NextSelection ==
    IF selIdx < Len(SELECTIONS)
      THEN /\ selIdx' = selIdx + 1
           /\ UNCHANGED <<flagsToSend, attempt, tpc, result>>
      ELSE EndOfCycle(flagsToSend)

\* One POST of postUpdate and the part of setFlags that runs on its reply.
postUpdate(reply) ==
    /\ tpc = "posting"
    /\ posts' = posts + 1
    /\ lastSent' = [selection |-> selIdx, variables |-> flagsToSend]
    /\ UNCHANGED mode
    /\ CASE reply.kind \in ThrowKinds ->
              \* fetch rejects inside try/finally: nothing catches it
              /\ tpc' = "rejected"
              /\ UNCHANGED <<flagsToSend, attempt, selIdx, result>>
         [] reply.kind = "ok" ->
              /\ tpc' = "settled"
              /\ result' = Applied(selIdx, flagsToSend)
              /\ UNCHANGED <<flagsToSend, attempt, selIdx>>
         [] OTHER ->
              IF reply.cannotQuery
                THEN NextSelection
                ELSE IF /\ reply.unknownField
                        /\ scrubUnsupportedFlagsFromError(flagsToSend, reply) # flagsToSend
                       THEN EndOfCycle(scrubUnsupportedFlagsFromError(flagsToSend, reply))
                       ELSE NextSelection

CallSetModbusMode ==
    /\ tpc = "idle"
    /\ \E m \in ModeInputs : setModbusMode(m)
    /\ UNCHANGED exceptToggle

PostUpdateStep ==
    /\ \E reply \in Replies : postUpdate(reply)
    /\ UNCHANGED exceptToggle

GenIdle ==
    /\ gpc = "idle"
    /\ cat = 1
    /\ csvExists = [ttid |-> FALSE, position |-> FALSE]
    /\ toggled = [c \in 1..3 |-> "none"]
    /\ invoked = [c \in 1..3 |-> "none"]
    /\ genResults = <<>>
    /\ genErrors = <<>>

InitToggle == ToggleIdle /\ GenIdle /\ AddrIdle /\ PollIdle
NextToggle == CallSetModbusMode \/ PostUpdateStep
SpecToggle == InitToggle /\ [][NextToggle]_vars

(***************************************************************************)
(* generateAllReports.js                                                   *)
(***************************************************************************)

\* The three report categories in the order generateAllReports runs them.
Categories == <<"TTID Sorted", "Legacy Unsorted", "Legacy Sorted">>
CategoryMode_shifted == <<"legacy-unsorted", "legacy-sorted", "ttid">>
CategoryMode == <<"ttid", "legacy-unsorted", "legacy-sorted">>
\* Which csv each category needs: the second and third share positionCsvPath.
CategoryCsv == <<"ttid", "position", "position">>

\* How a report generator call can end: csvModbusTTID catches everything and
\* returns {error}; csvModbusPosition returns {error} for an empty csv and lets
\* other failures out; csvSortedBatchRead has no error return.
GeneratorEndings ==
    <<{"reports", "error"}, {"reports", "error", "threw"}, {"reports", "threw"}>>

Advance ==
    /\ cat' = cat + 1
    /\ gpc' = IF cat = Len(Categories) THEN "index" ELSE "category"

\* The diagnostics and resetOutputDir, which rethrows a file-system failure.
GenBegin ==
    /\ gpc = "idle"
    /\ \E failed \in BOOLEAN : gpc' = IF failed THEN "threw" ELSE "category"
    /\ UNCHANGED <<cat, csvExists, toggled, invoked, genResults, genErrors>>
    /\ UNCHANGED <<toggleVars, exceptGen>>

\* if (csvPath && fs.existsSync(csvPath)) { try { await setModbusMode(...)
GenCategory ==
    /\ gpc = "category"
    /\ IF csvExists[CategoryCsv[cat]]
         THEN /\ setModbusMode(CategoryMode[cat])
              /\ gpc' = "toggling"
              /\ UNCHANGED <<cat, csvExists, toggled, invoked, genResults, genErrors>>
              /\ UNCHANGED exceptGen
         ELSE /\ Advance
              /\ UNCHANGED <<csvExists, toggled, invoked, genResults, genErrors>>
              /\ UNCHANGED <<toggleVars, exceptGen>>

GenPostUpdate ==
    /\ gpc = "toggling"
    /\ \E reply \in Replies : postUpdate(reply)
    /\ UNCHANGED exceptToggle

\* setModbusMode resolved: the generator of the category is awaited and its
\* result recorded.
GenRunReport ==
    /\ gpc = "toggling"
    /\ tpc = "settled"
    /\ toggled' = [toggled EXCEPT ![cat] = IF result.ok THEN "applied" ELSE "skipped"]
    /\ \E ending \in GeneratorEndings[cat] :
         /\ invoked' = [invoked EXCEPT ![cat] = ending]
         /\ IF ending = "reports"
              THEN /\ genResults' = Append(genResults, Categories[cat])
                   /\ UNCHANGED genErrors
              ELSE /\ genErrors' = Append(genErrors, Categories[cat])
                   /\ UNCHANGED genResults
    /\ Advance
    /\ UNCHANGED csvExists
    /\ UNCHANGED <<toggleVars, exceptGen>>

\* setModbusMode rejected: the catch of the category's try block records the
\* error; the generator call that follows the await in the try block is skipped.
GenCatchToggle ==
    /\ gpc = "toggling"
    /\ tpc = "rejected"
    /\ toggled' = [toggled EXCEPT ![cat] = "rejected"]
    /\ genErrors' = Append(genErrors, Categories[cat])
    /\ Advance
    /\ UNCHANGED <<csvExists, invoked, genResults>>
    /\ UNCHANGED <<toggleVars, exceptGen>>

\* The master index page and the summary.
GenMasterIndex ==
    /\ gpc = "index"
    /\ gpc' = "done"
    /\ UNCHANGED <<cat, csvExists, toggled, invoked, genResults, genErrors>>
    /\ UNCHANGED <<toggleVars, exceptGen>>

InitGen ==
    /\ ToggleIdle
    /\ AddrIdle
    /\ PollIdle
    /\ gpc = "idle"
    /\ cat = 1
    /\ csvExists \in [ttid : BOOLEAN, position : BOOLEAN]
    /\ toggled = [c \in 1..3 |-> "none"]
    /\ invoked = [c \in 1..3 |-> "none"]
    /\ genResults = <<>>
    /\ genErrors = <<>>

NextGen ==
    \/ GenBegin
    \/ GenCategory
    \/ GenPostUpdate
    \/ GenRunReport
    \/ GenCatchToggle
    \/ GenMasterIndex

SpecGen == InitGen /\ [][NextGen]_vars

(***************************************************************************)
(* csvModbusTTID.js: readModbusBatch                                       *)
(***************************************************************************)

\* deviceTypes; the network controller uses TTID 1, the others the csv TTIDs.
BatchDeviceTypes ==
    << [name |-> "Row Boxes",          type |-> "row",      jsonFile |-> "unsorted_assets.json"],
       [name |-> "Weather Station",    type |-> "weather",  jsonFile |-> "unsorted_assets.json"],
       [name |-> "Repeater",           type |-> "repeater", jsonFile |-> "unsorted_assets.json"],
       [name |-> "Network Controller", type |-> "network",  jsonFile |-> "unsorted_nc.json"] >>

BatchTTIDs(d) == IF BatchDeviceTypes[d].type = "network" THEN << <<"1">> >> ELSE ids

\* decodeValue, then the 'Unknown codec' message for a null result
BatchDecoded(h, rawCodec) ==
    IF decodeValue(h, normalizeCodec(rawCodec), "long").kind = "null" /\ rawCodec # ""
      THEN Text(<<"Unknown codec \"", rawCodec, "\"">>)
      ELSE decodeValue(h, normalizeCodec(rawCodec), "long")

\* parseTTIDsFromCSV, the two existsSync checks and connectTCP; any failure is
\* caught by the outer try, which returns {error}, and the finally closes.
Batch_Start ==
    /\ gen = "ttid"
    /\ ppc = "start"
    /\ \E outcome \in {"connected", "ENOENT: no such file", "Spec not found", "ECONNREFUSED"} :
         IF outcome = "connected"
           THEN /\ client' = connectTCP(client)
                /\ ppc' = "devtype"
                /\ UNCHANGED ret
           ELSE /\ client' = close(client)
                /\ ppc' = "returned"
                /\ ret' = ErrorObject(<<"Modbus read failed: ", outcome>>)
    /\ UNCHANGED <<gen, htmlRows, ids, registers, failures, dt, fieldSpec, ti, fi, unitId, header,
                   allResults, origin, allReports, lastRead, data, joinedHex, combinedHex>>
    /\ UNCHANGED exceptPoll

\* for (const deviceType of deviceTypes): skip a type without TTIDs, else load
\* its field spec; after the last type the index page, the return and the close.
Batch_DeviceType ==
    /\ gen = "ttid"
    /\ ppc = "devtype"
    /\ IF dt > Len(BatchDeviceTypes)
         THEN /\ ret' = Reports(Len(allReports))
              /\ client' = close(client)
              /\ ppc' = "returned"
              /\ UNCHANGED <<dt, fieldSpec, ti, allResults, origin>>
         ELSE IF BatchTTIDs(dt) = <<>>
                THEN /\ dt' = dt + 1
                     /\ UNCHANGED <<ret, client, ppc, fieldSpec, ti, allResults, origin>>
                ELSE /\ \E file \in SpecFile(BatchDeviceTypes[dt].jsonFile) : fieldSpec' = file
                     /\ allResults' = <<>>
                     /\ origin' = <<>>
                     /\ ti' = 1
                     /\ ppc' = "ttid"
                     /\ UNCHANGED <<ret, client, dt>>
    /\ htmlRows' = <<>>
    /\ UNCHANGED <<gen, ids, registers, failures, fi, unitId, header, allReports, lastRead,
                   data, joinedHex, combinedHex>>
    /\ UNCHANGED exceptPoll

\* for (const TTID of deviceType.ttids): the numeric check and computeUnitId
Batch_TTID ==
    /\ gen = "ttid"
    /\ ppc = "ttid"
    /\ IF ti > Len(BatchTTIDs(dt))
         THEN /\ ppc' = "output"
              /\ UNCHANGED <<ti, fi, unitId, allResults, origin>>
         ELSE LET TTID    == BatchTTIDs(dt)[ti]
                  ttidNum == ParseNumber(Trim(TTID))
                  unit    == computeUnitId(BatchDeviceTypes[dt].type, ttidNum)
              IN IF ~IsFinite(ttidNum)
                   THEN /\ allResults' = Push(allResults,
                              Row(Text(TTID), Empty, Empty, Empty, Empty,
                                  Str("Invalid TTID"), Empty))
                        /\ origin' = Push(origin, <<ti, 0>>)
                        /\ ti' = ti + 1
                        /\ UNCHANGED <<ppc, fi, unitId>>
                   ELSE IF unit.threw
                          THEN /\ allResults' = Push(allResults,
                                     Row(Text(TTID), Empty, Empty, Empty, Empty,
                                         Text(<<"Error: ">> \o unit.message), Empty))
                               /\ origin' = Push(origin, <<ti, 0>>)
                               /\ ti' = ti + 1
                               /\ UNCHANGED <<ppc, fi, unitId>>
                          ELSE /\ unitId' = unit.value
                               /\ fi' = 1
                               /\ ppc' = "field"
                               /\ UNCHANGED <<ti, allResults, origin>>
    /\ UNCHANGED <<gen, htmlRows, ids, registers, failures, client, ret, dt, fieldSpec, header,
                   allReports, lastRead, data, joinedHex, combinedHex>>
    /\ UNCHANGED exceptPoll

\* for (const field of fieldSpec): the field check, setID, the read, the hex
\* assembly, the padding, the decoding and the row
Batch_Field ==
    /\ gen = "ttid"
    /\ ppc = "field"
    /\ IF fi > Len(fieldSpec)
         THEN \* the locals of the loop body go out of scope
              /\ ti' = ti + 1
              /\ ppc' = "ttid"
              /\ lastRead' = NoRead
              /\ data' = <<>>
              /\ joinedHex' = <<>>
              /\ combinedHex' = <<>>
              /\ UNCHANGED <<fi, failures, client, allResults, origin>>
         ELSE LET field    == fieldSpec[fi]
                  ttidNum  == ParseNumber(Trim(BatchTTIDs(dt)[ti]))
                  baseReg  == field.BaseReg
                  size     == field.Size
                  id       == StrOrEmpty(field.ID)
                  rawCodec == field.Codec
              IN /\ fi' = fi + 1
                 /\ UNCHANGED <<ti, ppc>>
                 /\ origin' = Push(origin, <<ti, fi>>)
                 /\ IF ~IsFinite(baseReg) \/ ~IsFinite(size) \/ size.val <= 0
                      THEN /\ allResults' = Push(allResults,
                                 Row(ttidNum, Num(unitId), id, baseReg, size,
                                     Str("Invalid field spec"), Empty))
                           /\ UNCHANGED <<failures, client, lastRead, data, joinedHex,
                                          combinedHex>>
                      ELSE LET startAddr == StartingAddressOf(
                                    BatchDeviceTypes[dt].type, ttidNum, unitId, baseReg.val)
                           IN /\ client' = setID(client, unitId)
                              /\ \E reply \in ReadReplies(startAddr, size) :
                                   /\ lastRead' = ReadCall(client', startAddr, size, reply, "row")
                                   /\ IF reply.ok
                                        THEN /\ data' = reply.words
                                             /\ joinedHex' = BatchCombinedHex(reply.words)
                                             /\ combinedHex' =
                                                  PadForCodec(joinedHex', normalizeCodec(rawCodec))
                                             /\ allResults' = Push(allResults,
                                                  Row(ttidNum, Num(unitId), id, startAddr, size,
                                                      Text(<<"'">> \o ToUpperCase(combinedHex')),
                                                      BatchDecoded(combinedHex', rawCodec)))
                                             /\ UNCHANGED failures
                                        ELSE /\ allResults' = Push(allResults,
                                                  ErrorRow(ttidNum, Num(unitId), id, startAddr, size,
                                                           reply.message))
                                             /\ failures' = IF reply.forced THEN failures
                                                            ELSE failures + 1
                                             /\ UNCHANGED <<data, joinedHex, combinedHex>>
    /\ UNCHANGED <<gen, htmlRows, ids, registers, ret, dt, fieldSpec, unitId, header, allReports>>
    /\ UNCHANGED exceptPoll

\* The rows the html report groups: if (row.TTID && row.ID)
HtmlGrouped(rows) == SelectSeq(rows, LAMBDA row : Truthy(row.TTID) /\ Truthy(row.ID))

\* The identifiers of the grouped rows in the order groupedByTTID gets them as
\* properties
RECURSIVE InsertionKeys(_, _)
InsertionKeys(rows, seen) ==
    IF rows = <<>> THEN <<>>
    ELSE IF Head(rows).TTID \in seen
           THEN InsertionKeys(Tail(rows), seen)
           ELSE <<Head(rows).TTID>> \o InsertionKeys(Tail(rows), seen \cup {Head(rows).TTID})

\* A property name that is an integer index: String(n) of an integer n >= 0
IsArrayIndex(key) == key.kind = "num" /\ key.val >= 0

RECURSIVE Ascending(_)
Ascending(keys) ==
    IF keys = {} THEN <<>>
    ELSE LET least == CHOOSE k \in keys : \A o \in keys : k.val <= o.val
         IN <<least>> \o Ascending(keys \ {least})

\* Object.keys(groupedByTTID): the integer indices in ascending order, then the
\* other names in the order they were created
ObjectKeys(keys) ==
    Ascending({keys[i] : i \in {j \in DOMAIN keys : IsArrayIndex(keys[j])}})
    \o SelectSeq(keys, LAMBDA key : ~IsArrayIndex(key))

\* htmlRows: one section per name of groupedByTTID, with its rows
HtmlSections(rows) ==
    LET grouped == HtmlGrouped(rows)
        keys    == ObjectKeys(InsertionKeys(grouped, {}))
    IN [s \in 1..Len(keys) |->
          [ttid |-> Render(keys[s]),
           rows |-> SelectSeq(grouped, LAMBDA row : row.TTID = keys[s])]]

\* The csv and html files of the device type (htmlRows is what the html file
\* holds between its header and footer) and its allReports entry; the row
\* locals of the device type's iteration go out of scope.
Batch_Output ==
    /\ gen = "ttid"
    /\ ppc = "output"
    /\ allReports' = Append(allReports,
           [type |-> BatchDeviceTypes[dt].type, processed |-> Len(BatchTTIDs(dt))])
    /\ htmlRows' = HtmlSections(allResults)
    /\ dt' = dt + 1
    /\ ppc' = "devtype"
    /\ fieldSpec' = <<>>
    /\ allResults' = <<>>
    /\ origin' = <<>>
    /\ ti' = 1
    /\ fi' = 1
    /\ unitId' = 0
    /\ UNCHANGED <<gen, ids, registers, failures, client, ret, header, lastRead, data,
                   joinedHex, combinedHex>>
    /\ UNCHANGED exceptPoll

readModbusBatch ==
    \/ Batch_Start
    \/ Batch_DeviceType
    \/ Batch_TTID
    \/ Batch_Field
    \/ Batch_Output

(***************************************************************************)
(* csvModbusPosition.js: readModbusPositions                               *)
(***************************************************************************)

\* n + v for a number n and a value v taken as is from the spec file
Plus(n, v) == IF v.kind = "num" THEN Num(n + v.val) ELSE NaN

PositionStart_oneBased(position, baseReg) == Plus((position - 1) * BlockSize, baseReg)

\* posBase * 512 + BaseReg
PositionStart(position, baseReg) == Plus(position * BlockSize, baseReg)

\* item.ID.trim().toLowerCase() of the IDs of the spec files
IdKey(id) ==
    CASE id = "Device Type" -> "device type"
      [] id = "System ID"   -> "system id"
      [] OTHER              -> id

\* entries.find(item => item.ID && IdKey(item.ID) === key): the index, 0 if none
FindItem(entries, key) ==
    IF \E i \in 1..Len(entries) : entries[i].ID # "" /\ IdKey(entries[i].ID) = key
      THEN CHOOSE i \in 1..Len(entries) :
             /\ entries[i].ID # "" /\ IdKey(entries[i].ID) = key
             /\ \A j \in 1..(i - 1) : ~(entries[j].ID # "" /\ IdKey(entries[j].ID) = key)
      ELSE 0

\* "=".repeat(100)
SeparatorLine == Str("====================================================================================================")

PositionDeviceTypes ==
    << [name |-> "Assets", type |-> "assets", jsonFile |-> "unsorted_assets.json", unitId |-> 1],
       [name |-> "Network Controller", type |-> "nc", jsonFile |-> "unsorted_nc.json", unitId |-> 0] >>

\* isNaN(v) of a value of the spec file
IsNaN(v) == v.kind # "num"

\* parsePositionsFromCSV; a csv without positions returns {error} before any
\* connection is made, a csv that cannot be read rejects the call.
Pos_Start ==
    /\ gen = "position"
    /\ ppc = "start"
    /\ \E readable \in BOOLEAN :
         IF ~readable
           THEN /\ ret' = Thrown(<<"ENOENT: no such file">>)
                /\ ppc' = "returned"
           ELSE IF Len(ids) = 0
                  THEN /\ ret' = ErrorObject(<<"No positions found in CSV.">>)
                       /\ ppc' = "returned"
                  ELSE /\ ppc' = "devtype"
                       /\ UNCHANGED ret
    /\ UNCHANGED <<gen, htmlRows, ids, registers, failures, client, dt, fieldSpec, ti, fi, unitId,
                   header, allResults, origin, allReports, lastRead, data, joinedHex,
                   combinedHex>>
    /\ UNCHANGED exceptPoll

\* for (const deviceType of deviceTypes): load the entries, connectTCP and setID
\* with the unit id of the type; after the last type the index page, the close
\* and the return.  A connection that fails rejects the call.
Pos_DeviceType ==
    /\ gen = "position"
    /\ ppc = "devtype"
    /\ IF dt > Len(PositionDeviceTypes)
         THEN /\ ret' = Reports(Len(allReports))
              /\ client' = close(client)
              /\ ppc' = "returned"
              /\ UNCHANGED <<fieldSpec, allResults, origin, ti>>
         ELSE \E connected \in BOOLEAN :
                IF connected
                  THEN /\ \E file \in SpecFile(PositionDeviceTypes[dt].jsonFile) :
                            fieldSpec' = file
                       /\ client' = setID(connectTCP(client), PositionDeviceTypes[dt].unitId)
                       /\ allResults' = <<>>
                       /\ origin' = <<>>
                       /\ ti' = 1
                       /\ ppc' = "position"
                       /\ UNCHANGED ret
                  ELSE /\ ret' = Thrown(<<"ECONNREFUSED">>)
                       /\ ppc' = "returned"
                       /\ UNCHANGED <<client, fieldSpec, allResults, origin, ti>>
    /\ UNCHANGED <<gen, htmlRows, ids, registers, failures, dt, fi, unitId, header, allReports,
                   lastRead, data, joinedHex, combinedHex>>
    /\ UNCHANGED exceptPoll

\* for (const position of positions): the read of the 'Device Type' entry for
\* the block header, then the two header rows
Pos_Position ==
    /\ gen = "position"
    /\ ppc = "position"
    /\ IF ti > Len(ids)
         THEN /\ ppc' = "output"
              /\ UNCHANGED <<failures, fi, header, allResults, origin, lastRead>>
         ELSE LET position == ids[ti]
                  found    == FindItem(fieldSpec, "device type")
                  base     == PositionStart(position, fieldSpec[found].BaseReg)
                  headerRows(name) ==
                      Push(Push(allResults,
                          Separator(Text(<<"Position: ">> \o NumText(position)
                                         \o <<" | DeviceType: ">> \o Render(name)))),
                          Separator(SeparatorLine))
              IN /\ fi' = 1
                 /\ ppc' = "field"
                 /\ origin' = Push(Push(origin, <<ti, 0>>), <<ti, 0>>)
                 /\ IF found = 0
                      THEN /\ header' = Empty
                           /\ UNCHANGED <<failures, lastRead>>
                      ELSE \E reply \in ReadReplies(base, fieldSpec[found].Size) :
                             /\ lastRead' = ReadCall(client, base, fieldSpec[found].Size,
                                                     reply, "header")
                             /\ IF reply.ok
                                  THEN /\ header' =
                                            LET name == decodeValue(
                                                    PositionCombinedHex(reply.words),
                                                    normalizeCodec(fieldSpec[found].Codec),
                                                    "long")
                                            IN IF Truthy(name) THEN name ELSE Empty
                                       /\ UNCHANGED failures
                                  ELSE /\ header' = Str("Unknown")
                                       /\ failures' = IF reply.forced THEN failures
                                                      ELSE failures + 1
                 /\ allResults' = headerRows(header')
    /\ UNCHANGED <<gen, htmlRows, ids, registers, client, ret, dt, fieldSpec, ti, unitId, allReports,
                   data, joinedHex, combinedHex>>
    /\ UNCHANGED exceptPoll

\* for (const entry of allEntries): the read, the hex assembly, the padding, the
\* decoding and the row; after the last entry the two closing separator rows
Pos_Field ==
    /\ gen = "position"
    /\ ppc = "field"
    /\ IF fi > Len(fieldSpec)
         THEN /\ allResults' = Push(Push(allResults, Separator(SeparatorLine)),
                                    Separator(Empty))
              /\ origin' = Push(Push(origin, <<ti, fi>>), <<ti, fi>>)
              /\ ti' = ti + 1
              /\ ppc' = "position"
              /\ lastRead' = NoRead
              /\ data' = <<>>
              /\ joinedHex' = <<>>
              /\ combinedHex' = <<>>
              /\ UNCHANGED <<fi, failures>>
         ELSE LET entry      == fieldSpec[fi]
                  unit       == Num(PositionDeviceTypes[dt].unitId)
                  rangeStart == PositionStart(ids[ti], entry.BaseReg)
              IN /\ fi' = fi + 1
                 /\ UNCHANGED <<ti, ppc>>
                 /\ origin' = Push(origin, <<ti, fi>>)
                 /\ \E reply \in ReadReplies(rangeStart, entry.Size) :
                      /\ lastRead' = ReadCall(client, rangeStart, entry.Size, reply, "row")
                      /\ IF reply.ok
                           THEN /\ data' = reply.words
                                /\ joinedHex' = PositionCombinedHex(reply.words)
                                /\ combinedHex' =
                                     PadForCodec(joinedHex', normalizeCodec(entry.Codec))
                                /\ allResults' = Push(allResults,
                                     Row(Null, unit, StrOrEmpty(entry.ID), rangeStart,
                                         entry.Size,
                                         Text(<<"'">> \o ToUpperCase(combinedHex')),
                                         decodeValue(combinedHex',
                                                     normalizeCodec(entry.Codec), "long")))
                                /\ UNCHANGED failures
                           ELSE /\ allResults' = Push(allResults,
                                     ErrorRow(Null, unit, StrOrEmpty(entry.ID), rangeStart,
                                              entry.Size, reply.message))
                                /\ failures' = IF reply.forced THEN failures ELSE failures + 1
                                /\ UNCHANGED <<data, joinedHex, combinedHex>>
    /\ UNCHANGED <<gen, htmlRows, ids, registers, client, ret, dt, fieldSpec, unitId, header,
                   allReports>>
    /\ UNCHANGED exceptPoll

\* The csv and html files of the device type and its allReports entry
Pos_Output ==
    /\ gen = "position"
    /\ ppc = "output"
    /\ allReports' = Append(allReports,
           [type |-> PositionDeviceTypes[dt].type, processed |-> Len(ids)])
    /\ dt' = dt + 1
    /\ ppc' = "devtype"
    /\ fieldSpec' = <<>>
    /\ allResults' = <<>>
    /\ origin' = <<>>
    /\ ti' = 1
    /\ fi' = 1
    /\ header' = Empty
    /\ UNCHANGED <<gen, htmlRows, ids, registers, failures, client, ret, unitId, lastRead, data,
                   joinedHex, combinedHex>>
    /\ UNCHANGED exceptPoll

readModbusPositions ==
    \/ Pos_Start
    \/ Pos_DeviceType
    \/ Pos_Position
    \/ Pos_Field
    \/ Pos_Output

(***************************************************************************)
(* csvSortedBatchRead.js: readAllPositionsFromCsv                          *)
(***************************************************************************)

\* The network controller is always read at position 0.
SortedDeviceTypes ==
    << [name |-> "Row Boxes", type |-> "legacy-tracker", unitId |-> 1,
        jsonFile |-> "unsorted_assets.json"],
       [name |-> "Weather Station", type |-> "legacy-weather", unitId |-> 3,
        jsonFile |-> "unsorted_assets.json"],
       [name |-> "Network Controller", type |-> "legacy-network", unitId |-> 0,
        jsonFile |-> "unsorted_nc.json"] >>

SortedPositions(d) == IF SortedDeviceTypes[d].type = "legacy-network" THEN <<0>> ELSE ids

\* jsonFilename.includes("nc") ? "System ID" : "Device Type", lower-cased
TypeIdKey(jsonFile) == IF jsonFile = "unsorted_nc.json" THEN "system id" ELSE "device type"

\* The site check, which throws, and parseCSVPositions, which rejects when the
\* csv cannot be read.
Sorted_Start ==
    /\ gen = "sorted"
    /\ ppc = "start"
    /\ \E outcome \in {"parsed", "Invalid site", "ENOENT: no such file"} :
         IF outcome = "parsed"
           THEN /\ ppc' = "devtype"
                /\ UNCHANGED ret
           ELSE /\ ret' = Thrown(<<outcome>>)
                /\ ppc' = "returned"
    /\ UNCHANGED <<gen, htmlRows, ids, registers, failures, client, dt, fieldSpec, ti, fi, unitId,
                   header, allResults, origin, allReports, lastRead, data, joinedHex,
                   combinedHex>>
    /\ UNCHANGED exceptPoll

\* for (const deviceType of deviceTypes): skip a type without positions, else
\* load the entries, connectTCP and setID; after the last type the index page
\* and the return (the client is left as it is).
Sorted_DeviceType ==
    /\ gen = "sorted"
    /\ ppc = "devtype"
    /\ IF dt > Len(SortedDeviceTypes)
         THEN /\ ret' = Reports(Len(allReports))
              /\ ppc' = "returned"
              /\ UNCHANGED <<client, dt, fieldSpec, allResults, origin, ti>>
         ELSE IF SortedPositions(dt) = <<>>
                THEN /\ dt' = dt + 1
                     /\ UNCHANGED <<ret, ppc, client, fieldSpec, allResults, origin, ti>>
                ELSE \E connected \in BOOLEAN :
                       IF connected
                         THEN /\ \E file \in SpecFile(SortedDeviceTypes[dt].jsonFile) :
                                   fieldSpec' = file
                              /\ client' = setID(connectTCP(client),
                                                 SortedDeviceTypes[dt].unitId)
                              /\ allResults' = <<>>
                              /\ origin' = <<>>
                              /\ ti' = 1
                              /\ ppc' = "position"
                              /\ UNCHANGED <<ret, dt>>
                         ELSE /\ ret' = Thrown(<<"ECONNREFUSED">>)
                              /\ ppc' = "returned"
                              /\ UNCHANGED <<client, dt, fieldSpec, allResults, origin, ti>>
    /\ UNCHANGED <<gen, htmlRows, ids, registers, failures, fi, unitId, header, allReports,
                   lastRead, data, joinedHex, combinedHex>>
    /\ UNCHANGED exceptPoll

\* for (const pos of deviceType.positions): the read of the type entry for the
\* section header, then the header row
Sorted_Position ==
    /\ gen = "sorted"
    /\ ppc = "position"
    /\ IF ti > Len(SortedPositions(dt))
         THEN /\ ppc' = "output"
              /\ UNCHANGED <<failures, fi, header, allResults, origin, lastRead>>
         ELSE LET pos   == SortedPositions(dt)[ti]
                  found == FindItem(fieldSpec, TypeIdKey(SortedDeviceTypes[dt].jsonFile))
                  start == PositionStart(pos, fieldSpec[found].BaseReg)
              IN /\ fi' = 1
                 /\ ppc' = "field"
                 /\ origin' = Push(origin, <<ti, 0>>)
                 /\ IF found = 0 \/ IsNaN(fieldSpec[found].BaseReg)
                                 \/ IsNaN(fieldSpec[found].Size)
                      THEN /\ header' = Str("Unknown")
                           /\ UNCHANGED <<failures, lastRead>>
                      ELSE \E reply \in ReadReplies(start, fieldSpec[found].Size) :
                             /\ lastRead' = ReadCall(client, start, fieldSpec[found].Size,
                                                     reply, "header")
                             /\ IF reply.ok
                                  THEN /\ header' =
                                            LET name == decodeValue(
                                                    PositionCombinedHex(reply.words),
                                                    normalizeCodec(fieldSpec[found].Codec),
                                                    "short")
                                            IN IF Truthy(name) THEN name ELSE Str("Unknown")
                                       /\ UNCHANGED failures
                                  ELSE /\ header' = Text(<<"Error: ", reply.message>>)
                                       /\ failures' = IF reply.forced THEN failures
                                                      ELSE failures + 1
                 /\ allResults' = Push(allResults,
                        Separator(Text(<<"======================Position: ">> \o NumText(pos)
                                       \o <<" | DeviceType: ">> \o Render(header')
                                       \o <<" ======================">>)))
    /\ UNCHANGED <<gen, htmlRows, ids, registers, client, ret, dt, fieldSpec, ti, unitId, allReports,
                   data, joinedHex, combinedHex>>
    /\ UNCHANGED exceptPoll

\* for (const entry of entries): an entry without ID or with a NaN base register
\* or size is passed over; else the read, the hex assembly, the padding, the
\* decoding and the row; after the last entry the two closing rows
Sorted_Field ==
    /\ gen = "sorted"
    /\ ppc = "field"
    /\ IF fi > Len(fieldSpec)
         THEN /\ allResults' = Push(Push(allResults, Separator(SeparatorLine)),
                                    Separator(Empty))
              /\ origin' = Push(Push(origin, <<ti, fi>>), <<ti, fi>>)
              /\ ti' = ti + 1
              /\ ppc' = "position"
              /\ lastRead' = NoRead
              /\ data' = <<>>
              /\ joinedHex' = <<>>
              /\ combinedHex' = <<>>
              /\ UNCHANGED <<fi, failures>>
         ELSE LET entry == fieldSpec[fi]
                  unit  == Num(SortedDeviceTypes[dt].unitId)
                  start == PositionStart(SortedPositions(dt)[ti], entry.BaseReg)
              IN /\ fi' = fi + 1
                 /\ UNCHANGED <<ti, ppc>>
                 /\ IF entry.ID = "" \/ IsNaN(entry.BaseReg) \/ IsNaN(entry.Size)
                      THEN UNCHANGED <<allResults, origin, failures, lastRead, data,
                                       joinedHex, combinedHex>>
                      ELSE /\ origin' = Push(origin, <<ti, fi>>)
                           /\ \E reply \in ReadReplies(start, entry.Size) :
                                /\ lastRead' = ReadCall(client, start, entry.Size, reply, "row")
                                /\ IF reply.ok
                                     THEN /\ data' = reply.words
                                          /\ joinedHex' = PositionCombinedHex(reply.words)
                                          /\ combinedHex' =
                                               PadForCodec(joinedHex',
                                                           normalizeCodec(entry.Codec))
                                          /\ allResults' = Push(allResults,
                                               Row(Null, unit, Str(entry.ID), start, entry.Size,
                                                   Text(<<"'">> \o ToUpperCase(combinedHex')),
                                                   decodeValue(combinedHex',
                                                       normalizeCodec(entry.Codec), "short")))
                                          /\ UNCHANGED failures
                                     ELSE /\ allResults' = Push(allResults,
                                               ErrorRow(Null, unit, Str(entry.ID), start, entry.Size,
                                                        reply.message))
                                          /\ failures' = IF reply.forced THEN failures
                                                         ELSE failures + 1
                                          /\ UNCHANGED <<data, joinedHex, combinedHex>>
    /\ UNCHANGED <<gen, htmlRows, ids, registers, client, ret, dt, fieldSpec, unitId, header,
                   allReports>>
    /\ UNCHANGED exceptPoll

\* The csv and html files of the device type and its allReports entry
Sorted_Output ==
    /\ gen = "sorted"
    /\ ppc = "output"
    /\ allReports' = Append(allReports,
           [type |-> SortedDeviceTypes[dt].type, processed |-> Len(SortedPositions(dt))])
    /\ dt' = dt + 1
    /\ ppc' = "devtype"
    /\ fieldSpec' = <<>>
    /\ allResults' = <<>>
    /\ origin' = <<>>
    /\ ti' = 1
    /\ fi' = 1
    /\ header' = Empty
    /\ UNCHANGED <<gen, htmlRows, ids, registers, failures, client, ret, unitId, lastRead, data,
                   joinedHex, combinedHex>>
    /\ UNCHANGED exceptPoll

readAllPositionsFromCsv ==
    \/ Sorted_Start
    \/ Sorted_DeviceType
    \/ Sorted_Position
    \/ Sorted_Field
    \/ Sorted_Output

InitPoll ==
    /\ ToggleIdle
    /\ GenIdle
    /\ AddrIdle
    /\ gen \in {"ttid", "position", "sorted"}
    /\ ppc = "start"
    /\ ids \in IF gen = "ttid" THEN Windows(TTIDMaster, MaxIds)
               ELSE Windows(PositionMaster, MaxIds)
    /\ registers \in RegisterImages
    /\ failures = 0
    /\ client = NewClient
    /\ ret = NoReturn
    /\ dt = 1
    /\ fieldSpec = <<>>
    /\ ti = 1
    /\ fi = 1
    /\ unitId = 0
    /\ header = Empty
    /\ allResults = <<>>
    /\ origin = <<>>
    /\ allReports = <<>>
    /\ lastRead = NoRead
    /\ data = <<>>
    /\ joinedHex = <<>>
    /\ combinedHex = <<>>
    /\ htmlRows = <<>>

NextPoll == readModbusBatch \/ readModbusPositions \/ readAllPositionsFromCsv
SpecPoll == InitPoll /\ [][NextPoll]_vars

InitAddr ==
    /\ ToggleIdle
    /\ GenIdle
    /\ PollIdle
    /\ apc = "input"
    /\ aType \in AddrTypes
    /\ aTtid \in -1..MaxTTID
    /\ aBase \in AddrBaseRegs
    /\ aUnit = Returned(0)
    /\ aStart = 0

NextAddr == ComputeAddress
SpecAddr == InitAddr /\ [][NextAddr]_vars

(***************************************************************************)
(* Properties of the mode toggle and of the report runner                  *)
(***************************************************************************)

\* C1: setModbusMode never throws or rejects: whatever the mode string and
\* whatever the endpoint and the transport do (a network failure and a timeout
\* abort of the POST included), the call resolves to a structured outcome.
C1_NeverRejects == tpc # "rejected"

\* C2: for each report category whose csv file exists, the report generator is
\* invoked however the preceding setModbusMode call ended: once the run is over,
\* no category with its csv present was left without its generator call.
C2_ReportNotGated ==
    gpc = "done" =>
        \A c \in 1..Len(Categories) : csvExists[CategoryCsv[c]] => invoked[c] # "none"

(***************************************************************************)
(* Properties of the address math                                          *)
(***************************************************************************)

AddrDone(type) == apc = "done" /\ TypeKey(aType) = type

\* C7: for every integer row identifier t >= 1, computeUnitId('row', t) is
\* floor((t-1)/100)+1: the unit ids are banks of exactly 100 identifiers, unit u
\* holding the identifiers 100(u-1)+1 .. 100u.
C7_RowUnitId ==
    (AddrDone("row") /\ aTtid >= 1) =>
        /\ ~aUnit.threw
        /\ aUnit.value >= 1
        /\ 100 * (aUnit.value - 1) + 1 <= aTtid
        /\ aTtid <= 100 * aUnit.value

C7_Witness == AddrDone("row") /\ aTtid = 100 /\ aUnit = Returned(1)

\* C8: for every integer row identifier t >= 1 with its computed unit id, the
\* start address is ((t-1) mod 100)*512 + baseRegister: t and t+100 get the same
\* address under consecutive unit ids, the next identifier of the same bank is
\* 512 further, and identifier 101 with base register 0 has unit id 2, address 0.
C8_RowStartAddress ==
    (AddrDone("row") /\ aTtid >= 1) =>
        LET unitOf(t) == computeUnitId("row", Num(t)).value
            startOf(t) == computeStartingAddressForType("row", t, unitOf(t), aBase)
        IN /\ aStart = ((aTtid - 1) % 100) * 512 + aBase
           /\ unitOf(aTtid + 100) = aUnit.value + 1
           /\ startOf(aTtid + 100) = aStart
           /\ unitOf(aTtid + 1) = aUnit.value => startOf(aTtid + 1) = aStart + 512
           /\ (aTtid = 101 /\ aBase = 0) => (aUnit.value = 2 /\ aStart = 0)

C8_Witness == AddrDone("row") /\ aTtid = 101 /\ aBase = 0 /\ aUnit = Returned(2) /\ aStart = 0

\* C9: in the TTID generator the unit id of the flat-paged categories does not
\* depend on the identifier (weather 101, repeater 102, network 100) and their
\* start address is (identifier-1)*512 + baseRegister with no banking; network,
\* identifier 1, base register 10 gives unit id 100 and start address 10.
C9_FlatPaging ==
    \A type \in {"weather", "repeater", "network"} :
        AddrDone(type) =>
            /\ aUnit = Returned(CASE type = "weather" -> 101
                                  [] type = "repeater" -> 102
                                  [] type = "network" -> 100)
            /\ aStart = (aTtid - 1) * 512 + aBase
            /\ (type = "network" /\ aTtid = 1 /\ aBase = 10) => aStart = 10

C9_Witness ==
    /\ AddrDone("network") /\ aTtid = 1 /\ aBase = 10
    /\ aUnit = Returned(100) /\ aStart = 10


(***************************************************************************)
(* csvModbusTTID.js: the path of a 2-register read of a float32 field from *)
(* the reply to the row (hex assembly, normalization, padding, decoding)   *)
(***************************************************************************)

\* The 16-bit words of the replies tried, as the transport may deliver them
\* (signed): 0x0000, 0x0001, 0xffff, 0x4048, 0xf5c3, 0x7fff, 0x8000, 0x0080,
\* 0x7f80, 0xff80, 0x3f80, 0x00ff
WordSamples == {0, 1, -1, 16456, -2621, 32767, -32768, 128, 32640, -128, 16256, 255}

\* The float32 field of the assets spec file
Float32Field == AssetsMaster[2]

InitFloat ==
    /\ ToggleIdle
    /\ GenIdle
    /\ AddrIdle
    /\ gen = "float32"
    /\ ppc = "field"
    /\ ids = << <<"1">> >>
    /\ registers = "pi"
    /\ failures = 0
    /\ client = connectTCP(NewClient)
    /\ ret = NoReturn
    /\ dt = 1
    /\ fieldSpec = <<Float32Field>>
    /\ ti = 1
    /\ fi = 1
    /\ unitId = 1
    /\ header = Empty
    /\ allResults = <<>>
    /\ origin = <<>>
    /\ allReports = <<>>
    /\ lastRead = NoRead
    /\ data = <<>>
    /\ joinedHex = <<>>
    /\ combinedHex = <<>>
    /\ htmlRows = <<>>

\* The try block of the field loop of readModbusBatch for a reply of two words
Float32_Read ==
    /\ gen = "float32"
    /\ ppc = "field"
    /\ fi = 1
    /\ \E w1 \in WordSamples, w2 \in WordSamples :
         LET field     == fieldSpec[fi]
             startAddr == Num(computeStartingAddressForType("row", 1, unitId,
                                                            field.BaseReg.val))
         IN /\ client' = setID(client, unitId)
            /\ lastRead' = ReadCall(client', startAddr, field.Size,
                                    [ok |-> TRUE], "row")
            /\ data' = <<w1, w2>>
            /\ joinedHex' = BatchCombinedHex(data')
            /\ combinedHex' = PadForCodec(joinedHex', normalizeCodec(field.Codec))
            /\ allResults' = Push(allResults,
                 Row(Num(1), Num(unitId), StrOrEmpty(field.ID), startAddr, field.Size,
                     Text(<<"'">> \o ToUpperCase(combinedHex')),
                     BatchDecoded(combinedHex', field.Codec)))
            /\ origin' = Push(origin, <<ti, fi>>)
            /\ fi' = fi + 1
    /\ UNCHANGED <<gen, htmlRows, ppc, ids, registers, failures, ret, dt, fieldSpec, ti, unitId,
                   header, allReports>>
    /\ UNCHANGED exceptPoll

NextFloat == Float32_Read
SpecFloat == InitFloat /\ [][NextFloat]_vars

(***************************************************************************)
(* The codec helpers on their own: normalizeCodec of a codec name, then    *)
(* the path from the words of one reply to the decoded value in each of    *)
(* the three generators                                                    *)
(***************************************************************************)

\* The most registers of one reply
MaxWords == 5

\* The words of the replies tried: 0x0000, 0x0141, 0xffff (delivered as -1)
CodecWords == {0, 321, -1}

\* The replies tried
CodecReplies == UNION {[1..n -> CodecWords] : n \in 1..MaxWords}

\* The codec names tried: every key of the alias table, spellings of some of
\* them with capitals and blanks, names the table does not have, and none
CodecNames ==
    DOMAIN CODEC_ALIASES
    \cup {"Float32", " U16 ", "UINT 64", "ASCIIZ", "Float BE"}
    \cup {"widget", "BCD", "my codec", ""}

InitCodec ==
    /\ ToggleIdle
    /\ GenIdle
    /\ AddrIdle
    /\ gen = "codec"
    /\ ppc = "normalize"
    /\ ids = << <<"1">> >>
    /\ registers = "pi"
    /\ failures = 0
    /\ client = connectTCP(NewClient)
    /\ ret = NoReturn
    /\ dt = 1
    /\ \E name \in CodecNames, words \in CodecReplies :
         /\ fieldSpec = <<Entry("Sample", Num(0), Num(Len(words)), name)>>
         /\ data = words
    /\ ti = 1
    /\ fi = 1
    /\ unitId = 1
    /\ header = Empty
    /\ allResults = <<>>
    /\ origin = <<>>
    /\ allReports = <<>>
    /\ lastRead = NoRead
    /\ joinedHex = <<>>
    /\ combinedHex = <<>>
    /\ htmlRows = <<>>

\* normalizeCodec(Codec)
Codec_Normalize ==
    /\ gen = "codec"
    /\ ppc = "normalize"
    /\ header' = Str(normalizeCodec(fieldSpec[1].Codec))
    /\ ppc' = "batch"
    /\ UNCHANGED <<gen, htmlRows, ids, registers, failures, client, ret, dt, fieldSpec, ti, fi, unitId,
                   allResults, origin, allReports, lastRead, data, joinedHex, combinedHex>>
    /\ UNCHANGED exceptPoll

\* readModbusBatch from the reply to the row
Codec_Batch ==
    /\ gen = "codec"
    /\ ppc = "batch"
    /\ LET field == fieldSpec[1]
       IN /\ joinedHex' = BatchCombinedHex(data)
          /\ combinedHex' = PadForCodec(joinedHex', normalizeCodec(field.Codec))
          /\ allResults' = Push(allResults,
               Row(Num(1), Num(unitId), StrOrEmpty(field.ID), field.BaseReg, field.Size,
                   Text(<<"'">> \o ToUpperCase(combinedHex')),
                   BatchDecoded(combinedHex', field.Codec)))
    /\ origin' = Push(origin, <<ti, 1>>)
    /\ ppc' = "position"
    /\ UNCHANGED <<gen, htmlRows, ids, registers, failures, client, ret, dt, fieldSpec, ti, fi, unitId,
                   header, allReports, lastRead, data>>
    /\ UNCHANGED exceptPoll

\* readModbusPositions from the reply to the row
Codec_Position ==
    /\ gen = "codec"
    /\ ppc = "position"
    /\ LET entry == fieldSpec[1]
       IN /\ joinedHex' = PositionCombinedHex(data)
          /\ combinedHex' = PadForCodec(joinedHex', normalizeCodec(entry.Codec))
          /\ allResults' = Push(allResults,
               Row(Null, Num(unitId), StrOrEmpty(entry.ID), entry.BaseReg, entry.Size,
                   Text(<<"'">> \o ToUpperCase(combinedHex')),
                   decodeValue(combinedHex', normalizeCodec(entry.Codec), "long")))
    /\ origin' = Push(origin, <<ti, 2>>)
    /\ ppc' = "sorted"
    /\ UNCHANGED <<gen, htmlRows, ids, registers, failures, client, ret, dt, fieldSpec, ti, fi, unitId,
                   header, allReports, lastRead, data>>
    /\ UNCHANGED exceptPoll

\* readAllPositionsFromCsv from the reply to the row
Codec_Sorted ==
    /\ gen = "codec"
    /\ ppc = "sorted"
    /\ LET entry == fieldSpec[1]
       IN /\ joinedHex' = PositionCombinedHex(data)
          /\ combinedHex' = PadForCodec(joinedHex', normalizeCodec(entry.Codec))
          /\ allResults' = Push(allResults,
               Row(Null, Num(unitId), StrOrEmpty(entry.ID), entry.BaseReg, entry.Size,
                   Text(<<"'">> \o ToUpperCase(combinedHex')),
                   decodeValue(combinedHex', normalizeCodec(entry.Codec), "short")))
    /\ origin' = Push(origin, <<ti, 3>>)
    /\ ppc' = "decoded"
    /\ UNCHANGED <<gen, htmlRows, ids, registers, failures, client, ret, dt, fieldSpec, ti, fi, unitId,
                   header, allReports, lastRead, data>>
    /\ UNCHANGED exceptPoll

NextCodec == Codec_Normalize \/ Codec_Batch \/ Codec_Position \/ Codec_Sorted
SpecCodec == InitCodec /\ [][NextCodec]_vars

(***************************************************************************)
(* The pollers                                                             *)
(***************************************************************************)

\* The positions the current device type is read at
CurrentIds ==
    CASE gen = "ttid"   -> BatchTTIDs(dt)
      [] gen = "sorted" -> SortedPositions(dt)
      [] OTHER          -> ids

\* lastRead is the read made for the row of field f of identifier i of the
\* device type d
ReadFor(read, d, i, f) ==
    /\ read.purpose = "row"
    /\ read.dt = d
    /\ read.ti = i
    /\ read.fi = f

\* This step is the failed read of the register range of the current field
FailedRead ==
    /\ ppc = "field"
    /\ fi <= Len(fieldSpec)
    /\ ReadFor(lastRead', dt, ti, fi)
    /\ ~lastRead'.ok
    /\ lastRead' # lastRead \/ failures' # failures \/ allResults' # allResults

\* C3: in each of the three pollers the step of a failed register read appends
\* exactly one row, which carries "Error: " and the failure message and an
\* empty decoded value; no read had been issued for that (identifier, field)
\* before, and none is issued after it because the loop moves on to the next
\* field of the same identifier without returning.
C3_FailedReadOneErrorRow ==
    [][FailedRead =>
         /\ Len(allResults') = Len(allResults) + 1
         /\ SubSeq(allResults', 1, Len(allResults)) = allResults
         /\ \E m \in ErrorMessages :
              allResults'[Len(allResults')].CombinedHex = Text(<<"Error: ", m>>)
         /\ allResults'[Len(allResults')].DecodedValue = Empty
         /\ ~ReadFor(lastRead, dt, ti, fi)
         /\ fi' = fi + 1
         /\ ti' = ti
         /\ dt' = dt
         /\ ppc' = "field"
         /\ ret' = ret]_vars

\* A failed read in the position generator whose error row is followed by the
\* row of a successful read of a later identifier
C3_Witness ==
    /\ gen = "position"
    /\ ppc = "field"
    /\ ti = 2
    /\ lastRead.purpose = "row" /\ lastRead.ok
    /\ Len(allResults) >= 2
    /\ \E k \in 1..(Len(allResults) - 1) :
         /\ allResults[k].CombinedHex = Text(<<"Error: ", "Timed out">>)
         /\ allResults[k].DecodedValue = Empty
         /\ origin[k][1] = 1
    /\ allResults[Len(allResults)].DecodedValue # Empty
    /\ origin[Len(origin)][1] = 2

\* <<i, f>> comes before <<j, g>>: an earlier identifier, or the same
\* identifier and an earlier field
Before(a, b) == a[1] < b[1] \/ (a[1] = b[1] /\ a[2] < b[2])

\* C4: the rows readModbusBatch has collected for a device category are in the
\* order of the identifiers of the input and, within one identifier, in the
\* order of the fields of the field spec, whichever reads failed.
C4_RowOrder ==
    gen = "ttid" =>
      /\ Len(origin) = Len(allResults)
      /\ \A j, k \in 1..Len(origin) : j < k => Before(origin[j], origin[k])
      /\ \A k \in 1..Len(origin) :
           /\ origin[k][1] \in 1..Len(BatchTTIDs(dt))
           /\ origin[k][2] >= 1 =>
                /\ allResults[k].TTID = ParseNumber(Trim(BatchTTIDs(dt)[origin[k][1]]))
                /\ allResults[k].ID = StrOrEmpty(fieldSpec[origin[k][2]].ID)
           /\ origin[k][2] = 0 => allResults[k].TTID = Text(BatchTTIDs(dt)[origin[k][1]])

\* Two identifiers with two fields each, one of the reads failed
C4_Witness ==
    /\ gen = "ttid"
    /\ ppc = "output"
    /\ failures >= 1
    /\ origin = << <<1, 1>>, <<1, 2>>, <<2, 1>>, <<2, 2>> >>
    /\ \E k \in 1..Len(allResults) :
         allResults[k].CombinedHex = Text(<<"Error: ", "Timed out">>)

\* The state is the one after a successful read for a row
AfterRowRead ==
    /\ ppc = "field"
    /\ lastRead.purpose = "row"
    /\ lastRead.ok
    /\ lastRead.fi \in 1..Len(fieldSpec)
    /\ data # <<>>

\* C5: in each poller, for a codec that needs N hex characters, the hex string
\* given to the decoder is the concatenation of the registers padded on the
\* left with zeros to N characters if it is shorter, and the whole
\* concatenation if it has N characters or more.
C5_PaddingLaw ==
    AfterRowRead =>
      LET N             == PadWidth(normalizeCodec(fieldSpec[lastRead.fi].Codec))
          concatenation == JoinWords(data)
      IN N > 0 =>
           combinedHex = IF Len(concatenation) < N THEN PadStart(concatenation, N)
                         ELSE concatenation

\* The four hex digits of a 16-bit word
FourHex(n) ==
    <<HexDigits[(n \div 4096) + 1], HexDigits[((n \div 256) % 16) + 1],
      HexDigits[((n \div 16) % 16) + 1], HexDigits[(n % 16) + 1]>>

\* C6: in each poller the combined hex of a successful read, before the
\* padding, is the concatenation in register order of the four hex digits of
\* each word, a negative word v being rendered as 0x10000 + v: it has four
\* characters for each word returned, ffff for -1 and 0000 for 0.
C6_ExactConcatenation ==
    AfterRowRead =>
      /\ Len(joinedHex) = 4 * Len(data)
      /\ \A i \in 1..Len(data) :
           /\ SubSeq(joinedHex, 4 * i - 3, 4 * i) =
                FourHex(IF data[i] < 0 THEN 65536 + data[i] ELSE data[i])
           /\ data[i] = -1 => SubSeq(joinedHex, 4 * i - 3, 4 * i) = <<"f", "f", "f", "f">>
           /\ data[i] = 0 => SubSeq(joinedHex, 4 * i - 3, 4 * i) = <<"0", "0", "0", "0">>

\* The device type being read is the network controller
IsNetworkController ==
    CASE gen = "ttid"     -> dt \in 1..Len(BatchDeviceTypes)
                             /\ BatchDeviceTypes[dt].type = "network"
      [] gen = "position" -> dt \in 1..Len(PositionDeviceTypes)
                             /\ PositionDeviceTypes[dt].type = "nc"
      [] gen = "sorted"   -> dt \in 1..Len(SortedDeviceTypes)
                             /\ SortedDeviceTypes[dt].type = "legacy-network"
      [] OTHER            -> FALSE

\* base register + n, NaN if the base register is not a number
Offset(n, baseReg) == IF baseReg.kind = "num" THEN Num(n + baseReg.val) ELSE NaN

\* C10: readModbusPositions and readAllPositionsFromCsv read the network
\* controller with unit id 0, and every read they issue, for a row or for a
\* header, starts at position*512 + base register, so position 0 starts at the
\* base register; readModbusBatch reads the network controller with unit id 100
\* at (identifier-1)*512 + base register.  No read of a generator follows the
\* convention of the other.
C10_AddressingConventions ==
    /\ gen \in {"position", "sorted"} /\ lastRead.purpose = "row" =>
         /\ lastRead.address =
              Offset(CurrentIds[lastRead.ti] * 512, fieldSpec[lastRead.fi].BaseReg)
         /\ CurrentIds[lastRead.ti] = 0 => lastRead.address = fieldSpec[lastRead.fi].BaseReg
         /\ IsNetworkController => lastRead.unit = 0
    /\ gen \in {"position", "sorted"} /\ lastRead.purpose = "header" =>
         /\ \E e \in 1..Len(fieldSpec) :
              lastRead.address = Offset(CurrentIds[lastRead.ti] * 512, fieldSpec[e].BaseReg)
         /\ IsNetworkController => lastRead.unit = 0
    /\ gen = "ttid" /\ lastRead.purpose = "row" /\ IsNetworkController =>
         /\ lastRead.unit = 100
         /\ lastRead.address =
              Offset((ParseNumber(Trim(CurrentIds[lastRead.ti])).val - 1) * 512,
                     fieldSpec[lastRead.fi].BaseReg)

\* The network controller read at position 2 by the position generator: unit 0
\* and 2*512 + 10
C10_Witness ==
    /\ gen = "position"
    /\ IsNetworkController
    /\ lastRead.purpose = "row"
    /\ lastRead.ok
    /\ ids[lastRead.ti] = 2
    /\ fieldSpec[lastRead.fi].ID = "Uptime"
    /\ lastRead.unit = 0
    /\ lastRead.address = Num(1034)


\* The field spec has a register count <= 0, or a base register or a register
\* count that is not a finite number
InvalidFieldSpec(field) ==
    \/ ~IsFinite(field.BaseReg)
    \/ ~IsFinite(field.Size)
    \/ field.Size.val <= 0

\* This step handles the current field of the current identifier
FieldStep ==
    /\ ppc = "field"
    /\ fi <= Len(fieldSpec)
    /\ fi' = fi + 1

\* C11: in each of the three pollers the step that handles a field spec with a
\* register count <= 0 or a non-finite base register or register count issues
\* no register read, appends exactly one row, tagged 'Invalid field spec', and
\* goes on to the next field spec.
C11_InvalidFieldSpecNotRead ==
    [][FieldStep /\ InvalidFieldSpec(fieldSpec[fi]) =>
         /\ lastRead' = lastRead
         /\ failures' = failures
         /\ Len(allResults') = Len(allResults) + 1
         /\ SubSeq(allResults', 1, Len(allResults)) = allResults
         /\ allResults'[Len(allResults')].CombinedHex = Str("Invalid field spec")
         /\ ti' = ti
         /\ ppc' = "field"]_vars


\* The codecs decodeValue has a case for
KnownCodecs ==
    {"ascii", "float32", "int32", "uint32", "uint64", "int64", "int16", "uint16",
     "boolean", "hex"}

\* A codec name that is not empty and is neither a known codec nor an alias
UnknownCodec(rawCodec) == rawCodec # "" /\ normalizeCodec(rawCodec) \notin KnownCodecs

\* The state is the one right after the successful read of a field, whose row
\* is the last one
JustRead ==
    /\ AfterRowRead
    /\ lastRead.dt = dt
    /\ lastRead.ti = ti
    /\ lastRead.fi = fi - 1
    /\ allResults # <<>>

\* C12: in each poller the row of a successfully read field whose codec name
\* is unknown has a decoded value that is a diagnostic text containing the
\* codec name as written in the field spec, not null, and carries the hex of
\* the registers like every row of a successful read.
C12_UnknownCodecDiagnostic ==
    JustRead /\ UnknownCodec(fieldSpec[lastRead.fi].Codec) =>
      LET row == allResults[Len(allResults)]
      IN /\ row.DecodedValue.kind = "text"
         /\ \E i \in 1..Len(row.DecodedValue.text) :
              row.DecodedValue.text[i] = fieldSpec[lastRead.fi].Codec
         /\ row.CombinedHex = Text(<<"'">> \o ToUpperCase(combinedHex))


\* The word as an unsigned 16-bit value
Unsigned(w) == IF w < 0 THEN 65536 + w ELSE w

\* The 32 bits made of the two words are a NaN: the exponent is all ones and
\* the mantissa is not zero
IsNaNPattern(w1, w2) ==
    /\ (Unsigned(w1) % 32768) >= 32640
    /\ ((Unsigned(w1) % 128) # 0 \/ Unsigned(w2) # 0)

\* C13: for a 2-register read of a float32 field, whatever the two words
\* (also delivered as negative values, also with leading zeros), the hex string
\* the decoder receives is the eight hex digits of the original 32 bits, high
\* word first, and the decoded value of the row is the float with exactly
\* these bits (NaN when the bits are a NaN).
C13_Float32RoundTrip ==
    gen = "float32" /\ Len(data) = 2 =>
      LET bits == FourHex(Unsigned(data[1])) \o FourHex(Unsigned(data[2]))
          row  == allResults[Len(allResults)]
      IN /\ combinedHex = bits
         /\ row.CombinedHex = Text(<<"'">> \o ToUpperCase(bits))
         /\ row.DecodedValue = IF IsNaNPattern(data[1], data[2]) THEN NaN ELSE Float(bits)

\* The words 0x4048, 0xf5c3 (the second one delivered as -2621) give 4048f5c3
C13_Witness ==
    /\ gen = "float32"
    /\ data = <<16456, -2621>>
    /\ combinedHex = <<"4", "0", "4", "8", "f", "5", "c", "3">>
    /\ allResults[1].DecodedValue = Float(<<"4", "0", "4", "8", "f", "5", "c", "3">>)


(***************************************************************************)
(* The mode toggle                                                         *)
(***************************************************************************)

\* The reply is an unknown argument/field error (not a selection error) whose
\* message names the flag f and not the other one
RejectsFlag(reply, f) ==
    /\ reply.kind \in ErrorKinds
    /\ ~reply.cannotQuery
    /\ reply.unknownField
    /\ reply.namesSorting = (f = "enableModbusSorting")
    /\ reply.namesLegacy = (f = "enableLegacyMode")

\* C14: when the reply to a request of setFlags is an unknown argument/field
\* error naming one flag of the payload, that flag and no other is removed and
\* the other flag keeps its value; if setFlags goes on, it does so at the first
\* selection with the reduced payload (else it returns because no flag or no
\* cycle is left).  Every request carries the selection and the payload current
\* at that time, a payload never gets a flag back and no request is sent with
\* an empty payload, so every later request omits only that flag.
C14_RejectedFlagRemoved ==
    [][/\ \A f \in FlagNames, reply \in Replies :
            RejectsFlag(reply, f) /\ f \in DOMAIN flagsToSend /\ postUpdate(reply) =>
              /\ DOMAIN flagsToSend' = DOMAIN flagsToSend \ {f}
              /\ \A g \in DOMAIN flagsToSend' : flagsToSend'[g] = flagsToSend[g]
              /\ tpc' = "posting" => selIdx' = 1 /\ attempt' = attempt + 1
              /\ tpc' # "posting" =>
                   \/ flagsToSend' = <<>> /\ result' = Skipped("Unsupported flags", <<>>)
                   \/ /\ attempt' = MaxAttempts
                      /\ result' = Skipped("Exhausted retries", flagsToSend')
       /\ posts' = posts + 1 =>
            /\ lastSent' = [selection |-> selIdx, variables |-> flagsToSend]
            /\ DOMAIN flagsToSend # {}
            /\ DOMAIN flagsToSend' \subseteq DOMAIN flagsToSend
            /\ \A g \in DOMAIN flagsToSend : flagsToSend[g] = MODE_MAP[ToLowerCase(mode)][g]
      ]_vars

\* legacy-sorted: the first request was rejected for enableModbusSorting; the
\* second one was sent in the next cycle with the first selection and
\* enableLegacyMode alone
C14_Witness ==
    /\ mode = "legacy-sorted"
    /\ posts = 2
    /\ attempt = 1
    /\ lastSent = [selection |-> 1, variables |-> [enableLegacyMode |-> TRUE]]
    /\ flagsToSend = [enableLegacyMode |-> TRUE]


\* The reply is an application error that matches none of the schema patterns
PlainError(reply) ==
    /\ reply.kind \in ErrorKinds
    /\ ~reply.cannotQuery
    /\ ~reply.unknownField

\* Where setFlags is when every reply so far was such an error: the payload is
\* whole, every selection of every cycle so far was sent, and at the end 24
\* requests were sent and the result is 'Exhausted retries'
SteadyPath ==
    /\ ToLowerCase(mode) \in DOMAIN MODE_MAP
    /\ flagsToSend = MODE_MAP[ToLowerCase(mode)]
    /\ \/ /\ tpc = "posting"
          /\ attempt < 6
          /\ posts = 4 * attempt + selIdx - 1
       \/ /\ tpc = "settled"
          /\ posts = 24
          /\ result = Skipped("Exhausted retries", flagsToSend)

\* C15: setFlags sends a request at each of its steps and never more than 24,
\* so it ends whatever the replies; when it returns without a success and with
\* a flag left, the result is {ok: false, skipped: true, reason: 'Exhausted
\* retries'} after six cycles; and as long as every reply is an application
\* error matching no schema pattern it stays on the path that ends after
\* exactly 24 requests with that result.
C15_BoundedRetries ==
    [][/\ posts' <= 24
       /\ tpc = "posting" => posts' = posts + 1
       /\ tpc = "posting" /\ tpc' = "settled" /\ ~result'.ok /\ DOMAIN flagsToSend' # {} =>
            /\ result' = Skipped("Exhausted retries", flagsToSend')
            /\ attempt' = 6
       /\ tpc = "idle" /\ tpc' = "posting" => SteadyPath'
       /\ \A reply \in Replies :
            PlainError(reply) /\ SteadyPath /\ postUpdate(reply) => SteadyPath'
      ]_vars

\* The 24th request was answered like the others and setFlags gave up
C15_Witness ==
    /\ mode = "ttid"
    /\ tpc = "settled"
    /\ posts = 24
    /\ lastSent = [selection |-> 4, variables |-> MODE_MAP["ttid"]]
    /\ result = Skipped("Exhausted retries", MODE_MAP["ttid"])


\* C21: the reply after which no flag is left in the payload ends setFlags at
\* once with {ok: false, skipped: true, reason: 'Unsupported flags',
\* appliedFlags: {}}; nothing is sent once setFlags has returned, and every
\* request carries at least one flag.
C21_AllFlagsRemoved ==
    [][/\ tpc = "posting" /\ DOMAIN flagsToSend' = {} =>
            /\ tpc' = "settled"
            /\ result' = [ok |-> FALSE, skipped |-> TRUE, reason |-> "Unsupported flags",
                          selection |-> 0, appliedFlags |-> <<>>]
       /\ tpc = "settled" => posts' = posts /\ lastSent' = lastSent
       /\ posts' = posts + 1 =>
            /\ DOMAIN flagsToSend # {}
            /\ lastSent'.variables = flagsToSend
      ]_vars

\* legacy-sorted: two requests, each rejected for one flag, and no third one
C21_Witness ==
    /\ mode = "legacy-sorted"
    /\ tpc = "settled"
    /\ posts = 2
    /\ lastSent.variables \in {[enableLegacyMode |-> TRUE], [enableModbusSorting |-> TRUE]}
    /\ flagsToSend = <<>>
    /\ result = Skipped("Unsupported flags", <<>>)


SelectionOrder == <<"full", "partial", "typename-only", "bare-typename">>

\* C23: a request is sent with the selection that is current; the first request
\* of setFlags has the full projection; a request with another selection than
\* the full projection is sent only when the request before it had the
\* selection one step more ambitious and the same payload and failed in the
\* same cycle; after a failed request setFlags goes on either with the next
\* selection of the order, same cycle and payload, or with a new cycle at the
\* full projection; a new cycle begins only after the last selection or after
\* a flag was removed.
C23_SelectionOrder ==
    [][/\ SELECTIONS = SelectionOrder
       /\ tpc = "idle" /\ tpc' = "posting" => selIdx' = 1 /\ attempt' = 0
       /\ posts' = posts + 1 =>
            /\ tpc = "posting"
            /\ selIdx \in 1..4
            /\ lastSent'.selection = selIdx
            /\ selIdx > 1 =>
                 /\ lastSent = [selection |-> selIdx - 1, variables |-> flagsToSend]
                 /\ posts >= selIdx - 1
            /\ selIdx = 1 /\ attempt > 0 => posts > 0
            /\ tpc' = "posting" =>
                 \/ /\ attempt' = attempt
                    /\ selIdx' = selIdx + 1
                    /\ flagsToSend' = flagsToSend
                 \/ /\ attempt' = attempt + 1
                    /\ selIdx' = 1
                    /\ selIdx = 4 \/ flagsToSend' # flagsToSend
      ]_vars

\* ttid: the four selections of the first cycle failed in order and the fifth
\* request opened the second cycle with the full projection
C23_Witness ==
    /\ mode = "ttid"
    /\ posts = 6
    /\ attempt = 1
    /\ selIdx = 3
    /\ tpc = "posting"
    /\ lastSent = [selection |-> 2, variables |-> MODE_MAP["ttid"]]



(***************************************************************************)
(* generateAllReports                                                      *)
(***************************************************************************)

\* The flags (enableLegacyMode, enableModbusSorting) of the report of a category
ReportFlags ==
    << [enableLegacyMode |-> FALSE, enableModbusSorting |-> FALSE],
       [enableLegacyMode |-> TRUE,  enableModbusSorting |-> FALSE],
       [enableLegacyMode |-> TRUE,  enableModbusSorting |-> TRUE] >>

\* This step is the awaited call of the report generator of category c, within
\* which all the Modbus reads of the report are issued and awaited
ReportRuns(c) == invoked'[c] # invoked[c]

\* C16: the generator of a category, and with it every Modbus read of its
\* report, runs only in the category's own turn, after setModbusMode was called
\* with the category's own mode (ttid, legacy-unsorted, legacy-sorted, that is
\* the flags (false,false), (true,false), (true,true)) and has settled, with
\* every request of that toggle carrying only flags of that mode; it runs once,
\* and not after the toggle of a later category was called.
C16_ToggleBeforeReport ==
    [][/\ \A c \in 1..Len(Categories) :
            ReportRuns(c) =>
              /\ c = cat
              /\ gpc = "toggling"
              /\ tpc = "settled"
              /\ mode = <<"ttid", "legacy-unsorted", "legacy-sorted">>[c]
              /\ MODE_MAP[ToLowerCase(mode)] = ReportFlags[c]
              /\ \A f \in DOMAIN result.appliedFlags :
                   result.appliedFlags[f] = ReportFlags[c][f]
              /\ \A f \in DOMAIN lastSent.variables :
                   lastSent.variables[f] = ReportFlags[c][f]
              /\ invoked[c] = "none"
              /\ cat' = c + 1
       /\ \A c \in 1..Len(Categories) : c < cat => ~ReportRuns(c)
       /\ mode' # mode =>
            /\ gpc = "category"
            /\ mode' = <<"ttid", "legacy-unsorted", "legacy-sorted">>[cat]
            /\ invoked[cat] = "none"
      ]_vars

\* The three reports have run, each after its own toggle; the sorted report ran
\* after an applied legacy-sorted toggle
C16_Witness ==
    /\ gpc = "done"
    /\ \A c \in 1..3 : invoked[c] # "none" /\ toggled[c] \in {"applied", "skipped"}
    /\ toggled[3] = "applied"
    /\ mode = "legacy-sorted"
    /\ result.ok
    /\ result.appliedFlags = ReportFlags[3]


(***************************************************************************)
(* readModbusBatch: the identifiers                                        *)
(***************************************************************************)

\* This step handles the current identifier of the current category
TTIDStep ==
    /\ gen = "ttid"
    /\ ppc = "ttid"
    /\ ti <= Len(BatchTTIDs(dt))

\* The identifier has a character that no number has
NotNumeric(TTID) ==
    \E i \in 1..Len(TTID) : ~IsDigit(TTID[i]) /\ TTID[i] \notin {"-", "+", ".", " ", "e"}

\* The rows made for the identifier at index i
RowsOf(tags, i) == {k \in 1..Len(tags) : tags[k][1] = i}

\* C17: the step of readModbusBatch that handles an identifier that is not
\* numeric appends exactly one row, with the identifier as given, 'Invalid
\* TTID' and an empty decoded value, issues no read, and goes on to the next
\* identifier; no other row is ever made for that identifier in that category.
C17_InvalidTTIDRow ==
    [][/\ TTIDStep /\ NotNumeric(BatchTTIDs(dt)[ti]) =>
            /\ Len(allResults') = Len(allResults) + 1
            /\ SubSeq(allResults', 1, Len(allResults)) = allResults
            /\ allResults'[Len(allResults')].TTID = Text(BatchTTIDs(dt)[ti])
            /\ allResults'[Len(allResults')].CombinedHex = Str("Invalid TTID")
            /\ allResults'[Len(allResults')].DecodedValue = Empty
            /\ lastRead' = lastRead
            /\ ti' = ti + 1
            /\ dt' = dt
            /\ ppc' = "ttid"
            /\ ret' = ret
       /\ gen = "ttid" /\ ppc' \in {"ttid", "field", "output"} =>
            \A i \in 1..Len(BatchTTIDs(dt')) :
              NotNumeric(BatchTTIDs(dt')[i]) => Cardinality(RowsOf(origin', i)) <= 1
      ]_vars

\* The 'Invalid TTID' row of a first identifier followed by a row of the second
C17_Witness ==
    /\ gen = "ttid"
    /\ Len(allResults) >= 2
    /\ NotNumeric(BatchTTIDs(dt)[1])
    /\ allResults[1].CombinedHex = Str("Invalid TTID")
    /\ origin[1] = <<1, 0>>
    /\ origin[2][1] = 2


\* The identifiers that are numbers but no row box has: 0, a negative number,
\* a number that is not an integer
NoRowBox == {<<"0">>, <<"-", "1">>, <<"1", ".", "5">>}

\* C18: in the row category of readModbusBatch the step that handles an
\* identifier that is numeric but not an integer >= 1 appends exactly one row,
\* with the identifier as given, 'Error: Invalid TTID for row boxes: <number>'
\* and an empty decoded value, issues no read and goes on to the next
\* identifier; the identifier gets no other row in the category, and the run
\* is not aborted: once connected it ends by returning the reports of all four
\* categories.
C18_UnitIdFailureCaught ==
    [][/\ TTIDStep /\ BatchDeviceTypes[dt].type = "row" /\ BatchTTIDs(dt)[ti] \in NoRowBox =>
            /\ Len(allResults') = Len(allResults) + 1
            /\ SubSeq(allResults', 1, Len(allResults)) = allResults
            /\ allResults'[Len(allResults')].TTID = Text(BatchTTIDs(dt)[ti])
            /\ allResults'[Len(allResults')].CombinedHex =
                 Text(<<"Error: ", "Invalid TTID for row boxes: ">> \o BatchTTIDs(dt)[ti])
            /\ allResults'[Len(allResults')].DecodedValue = Empty
            /\ lastRead' = lastRead
            /\ ti' = ti + 1
            /\ dt' = dt
            /\ ppc' = "ttid"
            /\ ret' = ret
       /\ gen = "ttid" /\ ppc' \in {"ttid", "field", "output"}
             /\ BatchDeviceTypes[dt'].type = "row" =>
            \A i \in 1..Len(ids) :
              ids[i] \in NoRowBox => Cardinality(RowsOf(origin', i)) <= 1
       /\ gen = "ttid" /\ ppc # "start" /\ ppc' = "returned" =>
            ret' = Reports(IF ids = <<>> THEN 1 ELSE Len(BatchDeviceTypes))
      ]_vars

\* The row category of a csv with the identifiers 1.5 and -1: two error rows
C18_Witness ==
    /\ gen = "ttid"
    /\ dt = 1
    /\ ppc = "output"
    /\ ids = << <<"1", ".", "5">>, <<"-", "1">> >>
    /\ Len(allResults) = 2
    /\ allResults[1].CombinedHex =
         Text(<<"Error: ", "Invalid TTID for row boxes: ", "1", ".", "5">>)
    /\ allResults[2].CombinedHex =
         Text(<<"Error: ", "Invalid TTID for row boxes: ", "-", "1">>)


\* The CombinedHex column carries an error tag
ErrorTag(hex) ==
    \/ hex = Str("Invalid TTID")
    \/ hex = Str("Invalid field spec")
    \/ hex.kind = "text" /\ hex.text # <<>> /\ hex.text[1] = "Error: "

\* The CombinedHex column carries the hex of the registers: an apostrophe and
\* upper-case hex digits
HexTag(hex) ==
    /\ hex.kind = "text"
    /\ Len(hex.text) >= 2
    /\ hex.text[1] = "'"
    /\ \A i \in 2..Len(hex.text) : \E d \in 1..16 : hex.text[i] = UpperDigits[d]

\* Every row is either an error row, with an empty decoded value, or a row with
\* the hex of the registers
RowsWellFormed(rows) ==
    \A k \in 1..Len(rows) :
      /\ ErrorTag(rows[k].CombinedHex) # HexTag(rows[k].CombinedHex)
      /\ ErrorTag(rows[k].CombinedHex) => rows[k].DecodedValue = Empty
      /\ rows[k].DecodedValue # Empty => HexTag(rows[k].CombinedHex)

\* C19: in readModbusBatch every row is, from the step that appends it, either
\* an error row ('Invalid TTID', 'Invalid field spec' or 'Error: ...') with an
\* empty decoded value, or a row with the hex of the registers, which alone
\* can have a decoded value or a decode diagnostic; and until the files of the
\* category are written, when the array goes out of scope, the rows already
\* appended stay as they are, in place.
C19_RowsDecidedAtCreation ==
    [][gen = "ttid" =>
         /\ RowsWellFormed(allResults')
         /\ ppc # "output" =>
              /\ Len(allResults') >= Len(allResults)
              /\ SubSeq(allResults', 1, Len(allResults)) = allResults
      ]_vars

\* A category with an error row of a failed read, an 'Invalid field spec' row
\* and a row with a decoded value
C19_Witness ==
    /\ gen = "ttid"
    /\ ppc = "output"
    /\ \E k \in 1..Len(allResults) :
         allResults[k].CombinedHex = Text(<<"Error: ", "Timed out">>)
    /\ \E k \in 1..Len(allResults) :
         allResults[k].CombinedHex = Str("Invalid field spec")
    /\ \E k \in 1..Len(allResults) :
         HexTag(allResults[k].CombinedHex) /\ allResults[k].DecodedValue.kind = "num"


(***************************************************************************)
(* The shared connection                                                   *)
(***************************************************************************)

\* This step issues a read (the call is awaited: the read and its reply are
\* one step, and the next read is issued by a later step)
ReadIssued == lastRead' # lastRead /\ lastRead'.purpose # "none"

\* The unit id of the identifier and device type being read
ExpectedUnit ==
    CASE gen = "ttid" ->
           (CASE BatchDeviceTypes[dt].type = "row" ->
                   ((ParseNumber(Trim(BatchTTIDs(dt)[ti])).val - 1) \div 100) + 1
              [] BatchDeviceTypes[dt].type = "weather"  -> 101
              [] BatchDeviceTypes[dt].type = "repeater" -> 102
              [] BatchDeviceTypes[dt].type = "network"  -> 100)
      [] gen = "position" -> <<1, 0>>[dt]
      [] gen = "sorted"   -> <<1, 3, 0>>[dt]

\* C20: in each poller a step issues at most one read, for the identifier and
\* device type current at that step, and on the connection as it is when the
\* read is issued the selected unit id is the one of that identifier and device
\* type, which is also the UnitID of the row made from the read; in
\* readModbusBatch the selection is made by the very step that issues the read.
C20_UnitSelectedAtRead ==
    [][ReadIssued =>
         /\ lastRead'.dt = dt
         /\ lastRead'.ti = ti
         /\ lastRead'.unit = ExpectedUnit
         /\ client'.unit = ExpectedUnit
         /\ client'.open
         /\ lastRead'.purpose = "row" =>
              /\ lastRead'.fi = fi
              /\ Len(allResults') = Len(allResults) + 1
              /\ allResults'[Len(allResults')].UnitID = Num(ExpectedUnit)
         /\ gen = "ttid" => client' = [client EXCEPT !.unit = ExpectedUnit]
         /\ gen # "ttid" => client' = client
      ]_vars

\* A read of the weather category of readModbusBatch, unit 101, after the row
\* category was read with another unit
C20_Witness ==
    /\ gen = "ttid"
    /\ dt = 2
    /\ allReports # <<>>
    /\ failures = 0
    /\ lastRead.purpose = "row"
    /\ lastRead.ok
    /\ lastRead.unit = 101
    /\ client.unit = 101
    /\ allResults[Len(allResults)].UnitID = Num(101)


(***************************************************************************)
(* The codec helpers                                                       *)
(***************************************************************************)

\* The alias a written codec name spells once capitals and blanks are set
\* aside
SpelledAlias(name) ==
    CASE name = "Float32"  -> "float32"
      [] name = " U16 "    -> "u16"
      [] name = "UINT 64"  -> "uint64"
      [] name = "ASCIIZ"   -> "asciiz"
      [] name = "Float BE" -> "floatbe"
      [] OTHER             -> name

\* The canonical codec of each alias
CanonicalOf(alias) ==
    CASE alias \in {"asciiz", "utf8", "text", "string", "ascii"} -> "ascii"
      [] alias \in {"float", "floatbe", "float32"}              -> "float32"
      [] alias \in {"int", "int32", "i32"}                      -> "int32"
      [] alias \in {"uint", "u32", "uint32"}                    -> "uint32"
      [] alias \in {"u64", "uint64"}                            -> "uint64"
      [] alias \in {"int64", "i64"}                             -> "int64"
      [] alias \in {"int16", "i16", "s16"}                      -> "int16"
      [] alias \in {"uint16", "u16"}                            -> "uint16"
      [] alias \in {"bool", "boolean"}                          -> "boolean"
      [] alias = "hex"                                          -> "hex"
      [] OTHER                                                  -> ""

\* The codec name of the sample field has been normalized
Normalized == gen = "codec" /\ ppc # "normalize"

\* C24: normalizeCodec gives the canonical codec for a name that spells an
\* alias, whatever its capitals and blanks, gives each canonical codec name
\* back, and gives every other name back as it was written.
C24_NormalizeCodec ==
    Normalized =>
      LET name == fieldSpec[1].Codec
      IN /\ CanonicalOf(SpelledAlias(name)) # "" =>
               header = Str(CanonicalOf(SpelledAlias(name)))
         /\ name \in KnownCodecs => header = Str(name)
         /\ CanonicalOf(SpelledAlias(name)) = "" => header = Str(name)

\* The part of C24 about the alias table alone
C24_AliasesCanonical ==
    Normalized =>
      LET name == fieldSpec[1].Codec
      IN /\ CanonicalOf(SpelledAlias(name)) # "" =>
               header = Str(CanonicalOf(SpelledAlias(name)))
         /\ name \in KnownCodecs => header = Str(name)

\* A row was decoded from the sample reply
Decoded == gen = "codec" /\ allResults # <<>>

\* C25: when the codec is uint64 and the hex string decoded holds 8 bytes or
\* more, the decoded value is the number the first 16 hex digits denote, so it
\* has no more than 16 hex digits.
C25_Uint64Range ==
    Decoded /\ header = Str("uint64") /\ Len(combinedHex) >= 16 =>
      LET value == allResults[Len(allResults)].DecodedValue
      IN /\ value = Big(Canonical(SubSeq(combinedHex, 1, 16)))
         /\ Len(value.text) <= 16

\* The part of C25 about replies of no more than 4 registers
C25_Uint64UpTo4Registers ==
    Decoded /\ header = Str("uint64") /\ Len(data) <= 4 =>
      LET value == allResults[Len(allResults)].DecodedValue
      IN /\ Len(combinedHex) = 16
         /\ value = Big(Canonical(combinedHex))
         /\ Len(value.text) <= 16

\* C27: for a known codec and any reply, the row of readModbusBatch and the
\* rows of readModbusPositions and of readAllPositionsFromCsv made from the
\* same words have the same decoded value.
C27_DecodePathsAgree ==
    gen = "codec" /\ ppc = "decoded" /\ header.text[1] \in KnownCodecs =>
      /\ allResults[1].DecodedValue = allResults[2].DecodedValue
      /\ allResults[1].DecodedValue = allResults[3].DecodedValue

\* The two position generators decode alike
C27_PositionPathsAgree ==
    gen = "codec" /\ ppc = "decoded" =>
      allResults[2].DecodedValue = allResults[3].DecodedValue


(***************************************************************************)
(* readModbusBatch: the addresses read                                     *)
(***************************************************************************)

\* C26: every read readModbusBatch issues starts at an address that is an
\* integer and not negative.
C26_AddressesNonNegative ==
    gen = "ttid" /\ lastRead.purpose # "none" =>
      /\ lastRead.address.kind = "num"
      /\ lastRead.address.val >= 0

\* The part of C26 about the row boxes
C26_RowAddressesNonNegative ==
    gen = "ttid" /\ lastRead.purpose # "none" /\ BatchDeviceTypes[lastRead.dt].type = "row" =>
      /\ lastRead.address.kind = "num"
      /\ lastRead.address.val >= 0


(***************************************************************************)
(* readModbusBatch: the html report                                        *)
(***************************************************************************)

\* This step writes the report of a device type of readModbusBatch
ReportWritten == gen = "ttid" /\ Len(allReports') = Len(allReports) + 1

\* The report written by this step
WrittenHtml == htmlRows'

\* The place of the first result row of the identifier shown as `ttid`
FirstRowOf(ttid) ==
    CHOOSE k \in 1..Len(allResults) :
      /\ Render(allResults[k].TTID) = ttid
      /\ \A j \in 1..(k - 1) : Render(allResults[j].TTID) # ttid

\* C28: in the html report a section stands before another one when the first
\* result row of its identifier stands before the first result row of the
\* other's.
C28_SectionsInInputOrder ==
    [][ReportWritten =>
         \A a, b \in 1..Len(WrittenHtml) :
            a < b => FirstRowOf(WrittenHtml[a].ttid) < FirstRowOf(WrittenHtml[b].ttid)
      ]_vars

\* The part of C28 about the rows inside one section
C28_RowsInOrderWithinSection ==
    [][ReportWritten =>
         \A a \in 1..Len(WrittenHtml) :
            WrittenHtml[a].rows =
              SelectSeq(allResults,
                        LAMBDA row : /\ Render(row.TTID) = WrittenHtml[a].ttid
                                     /\ row.TTID.kind \in {"num", "half"}
                                     /\ row.ID.text # <<>>)
      ]_vars

\* C29: every result row of a device type is a row of a section of its html
\* report.
C29_EveryRowInReport ==
    [][ReportWritten =>
         \A k \in 1..Len(allResults) :
            \E a \in 1..Len(WrittenHtml) :
               \E j \in 1..Len(WrittenHtml[a].rows) : WrittenHtml[a].rows[j] = allResults[k]
      ]_vars

\* The part of C29 about rows with an identifier other than 0 and a field ID
C29_NamedRowsInReport ==
    [][ReportWritten =>
         \A k \in 1..Len(allResults) :
            /\ allResults[k].TTID.kind \in {"num", "half"}
            /\ allResults[k].TTID # Num(0)
            /\ allResults[k].ID.text # <<>>
            => \E a \in 1..Len(WrittenHtml) :
                  \E j \in 1..Len(WrittenHtml[a].rows) :
                     WrittenHtml[a].rows[j] = allResults[k]
      ]_vars


(***************************************************************************)
(* The Modbus client of a generator                                        *)
(***************************************************************************)

\* This step ends the generator: it returns or throws
GeneratorEnds == ret = NoReturn /\ ret' # NoReturn

\* This step calls connectTCP
Connects == client'.connects = client.connects + 1

\* C30: when a generator returns or throws, its client is not connected (it
\* was closed, or never connected); connectTCP is called at most once, on a
\* client that is not connected.
C30_ClientClosed ==
    [][/\ GeneratorEnds => ~client'.open
       /\ Connects => ~client.open /\ client.connects = 0
      ]_vars

\* The part of C30 about readModbusBatch
C30_BatchClientClosed ==
    [][gen = "ttid" =>
         /\ GeneratorEnds => client'.closes = 1 /\ ~client'.open
         /\ Connects => ~client.open /\ client.connects = 0
      ]_vars

====
